---- MODULE Spec2Model ----
(***************************************************************************)
(* Dispatcharr Timeshift plugin: the catch-up request engine of views.py   *)
(* (timeshift_proxy and _proxy_stream) over the host's user / stream /     *)
(* channel / account tables and the process-wide _url_format_cache.        *)
(*                                                                         *)
(* Strings that the code takes apart (path fields, server_url) are         *)
(* sequences of one-character strings; other strings are TLA+ strings.     *)
(* A timestamp "Y-M-D:H-M" is the tuple <<Y, M, D, H, M>> of its numeric   *)
(* fields; a tuple of another length is a string that matches the path     *)
(* pattern [\d\-:]+ without having that shape.                             *)
(***************************************************************************)
EXTENDS Integers, Sequences, FiniteSets, TLC

VARIABLES
    url_format_cache,   \* views._url_format_cache: account id -> "B", or Absent
    plugin_config,      \* the host's PluginConfig row of this plugin
    req,                \* per worker: the catch-up request it is handling
    fallback_ok,        \* history: accounts that saw 400 then 200/206
    first_ok,           \* history: per observed account, the dialect of its
                        \* first 200/206 (SpecHist observes every account)
    relay,              \* per worker: the upstream responses its request holds
                        \* open, and how far stream_generator has come
    enabled,            \* the enabled column of the host's PluginConfig row
    hooks,              \* plugin._hooks_installed, the wrappers put around each
                        \* host function, and what hooks._original_* refer to
    hook_out,           \* the outcome of the last call to a patched function
    call                \* SpecDuration: the arguments of a call of
                        \* _get_programme_duration and, once made, its result

host_vars == <<enabled, hooks, hook_out>>

vars == <<url_format_cache, plugin_config, req, fallback_ok, first_ok, relay,
          enabled, hooks, hook_out, call>>

(***************************************************************************)
(* Bounds                                                                  *)
(***************************************************************************)
\* number of requests handled concurrently in SpecConc
NumWorkers == 2

\* number of 8192-byte chunks of a body that SpecRelay follows
MaxChunks == 2

\* number of times SpecHost lets install_hooks run in one process
MaxInstalls == 2

\* number of programmes in a schedule of SpecDuration
MaxProgrammes == 2

Workers == 1..NumWorkers

(***************************************************************************)
(* Python values                                                           *)
(***************************************************************************)
\* Python's None, where a record (user, channel, stream, URL) is expected
None == [none |-> TRUE]

\* JSON values of a custom_properties bag: tag and written form
JNull == [t |-> "null", v |-> <<>>]
JStr(s) == [t |-> "str", v |-> s]
JInt(s) == [t |-> "int", v |-> s]
JBool(s) == [t |-> "bool", v |-> s]

\* Python truthiness of a JSON value
Truthy(j) ==
    CASE j.t = "null" -> FALSE
      [] j.t = "str"  -> j.v # <<>>
      [] j.t = "int"  -> j.v # <<"0">>
      [] j.t = "bool" -> j.v = <<"1">>

\* Python's ==, between a JSON value and a str
EqStr(j, s) == j.t = "str" /\ j.v = s

\* s.rstrip(chars)
RECURSIVE RStrip(_, _)
RStrip(s, chars) ==
    IF s # <<>> /\ s[Len(s)] \in chars
    THEN RStrip(SubSeq(s, 1, Len(s) - 1), chars)
    ELSE s

(***************************************************************************)
(* datetime: the proleptic Gregorian calendar of datetime.strptime,        *)
(* astimezone and strftime, in minutes since 1970-01-01 00:00.             *)
(***************************************************************************)
IsLeap(y) == (y % 4 = 0 /\ y % 100 # 0) \/ y % 400 = 0

DaysInMonth(y, m) ==
    IF m = 2 THEN (IF IsLeap(y) THEN 29 ELSE 28)
    ELSE IF m \in {4, 6, 9, 11} THEN 30 ELSE 31

\* datetime.strptime(ts, "%Y-%m-%d:%H-%M") does not raise ValueError
Parses(ts) ==
    /\ Len(ts) = 5
    /\ ts[1] \in 1..9999
    /\ ts[2] \in 1..12
    /\ ts[3] \in 1..DaysInMonth(ts[1], ts[2])
    /\ ts[4] \in 0..23
    /\ ts[5] \in 0..59

DaysFromCivil(y, m, d) ==
    LET yy  == IF m <= 2 THEN y - 1 ELSE y
        era == yy \div 400
        yoe == yy - era * 400
        mp  == IF m > 2 THEN m - 3 ELSE m + 9
        doy == (153 * mp + 2) \div 5 + d - 1
        doe == yoe * 365 + yoe \div 4 - yoe \div 100 + doy
    IN  era * 146097 + doe - 719468

CivilFromDays(z) ==
    LET zz  == z + 719468
        era == zz \div 146097
        doe == zz - era * 146097
        yoe == (doe - doe \div 1460 + doe \div 36524 - doe \div 146096) \div 365
        doy == doe - (365 * yoe + yoe \div 4 - yoe \div 100)
        mp  == (5 * doy + 2) \div 153
        d   == doy - (153 * mp + 2) \div 5 + 1
        m   == IF mp < 10 THEN mp + 3 ELSE mp - 9
        y   == yoe + era * 400 + (IF m <= 2 THEN 1 ELSE 0)
    IN  <<y, m, d>>

\* strptime: the parsed wall-clock time, in minutes
Strptime(ts) == DaysFromCivil(ts[1], ts[2], ts[3]) * 1440 + ts[4] * 60 + ts[5]

\* strftime("%Y-%m-%d:%H-%M") of a wall-clock time in minutes
Strftime(t) ==
    LET days == t \div 1440
        rest == t % 1440
        ymd  == CivilFromDays(days)
    IN  <<ymd[1], ymd[2], ymd[3], rest \div 60, rest % 60>>

\* the last Sunday of month m of year y, as a day number (1970-01-01 is a Thursday)
LastSunday(y, m) ==
    LET last == DaysFromCivil(y, m, DaysInMonth(y, m))
    IN  last - ((last + 4) % 7)

\* zone names that ZoneInfo() finds in the IANA database
KnownZones == {"UTC", "Europe/Brussels", "Asia/Kolkata"}

\* mutant of ZoneOffset: no daylight saving time
ZoneOffsetStandardTime(zone, t) ==
    CASE zone = "UTC" -> 0
      [] zone = "Asia/Kolkata" -> 330
      [] zone = "Europe/Brussels" -> 60

\* the zone's UTC offset in minutes at the instant t (minutes, UTC)
ZoneOffset(zone, t) ==
    CASE zone = "UTC" -> 0
      [] zone = "Asia/Kolkata" -> 330
      [] zone = "Europe/Brussels" ->
            LET y == CivilFromDays(t \div 1440)[1]
                dstStart == LastSunday(y, 3) * 1440 + 60
                dstEnd   == LastSunday(y, 10) * 1440 + 60
            IN  IF t >= dstStart /\ t < dstEnd THEN 120 ELSE 60

(***************************************************************************)
(* The host's tables (read-only to the engine).  A table is listed in the  *)
(* order the database returns its rows, which is what .first() sees.       *)
(***************************************************************************)
S155   == <<"1", "5", "5">>
S22371 == <<"2", "2", "3", "7", "1">>
S22372 == <<"2", "2", "3", "7", "2">>
S404   == <<"4", "0", "4">>
S500   == <<"5", "0", "0">>
S501   == <<"5", "0", "1">>
S700   == <<"7", "0", "0">>
S99999 == <<"9", "9", "9", "9", "9">>
PwAlice == <<"s", "3", "c", "r", "e", "t">>
PwDave  == <<"h", "u", "n", "t", "e", "r", "2">>

\* a custom_properties bag: every key the engine reads, JNull where the key
\* is absent (dict.get gives None for both); None as a bag is all JNull
Bag(stream_id, tv_archive, xc_password) ==
    [stream_id |-> stream_id, tv_archive |-> tv_archive, xc_password |-> xc_password]
NoBag == Bag(JNull, JNull, JNull)

\* apps.accounts.models.User rows, by username
UserNames == {"alice", "dave", "bob", "carol"}
UserTable ==
    [u \in UserNames |->
        CASE u = "alice" -> [username |-> u, user_level |-> 10,
                             custom_properties |-> Bag(JNull, JNull, JStr(PwAlice))]
          [] u = "dave"  -> [username |-> u, user_level |-> 1,
                             custom_properties |-> Bag(JNull, JNull, JStr(PwDave))]
          [] u = "bob"   -> [username |-> u, user_level |-> 10,
                             custom_properties |-> Bag(JNull, JNull, JStr(<<>>))]
          [] u = "carol" -> [username |-> u, user_level |-> 10,
                             custom_properties |-> NoBag]]

\* M3UAccount rows, by primary key
AccountIds == {0, 1, 2}
AccountTable ==
    [a \in AccountIds |->
        CASE a = 0 -> [id |-> 0, account_type |-> "XC", server_url |-> <<"h", "0", "/", "/">>,
                       username |-> "u0", password |-> "p0", user_agent |-> "VLC"]
          [] a = 1 -> [id |-> 1, account_type |-> "XC", server_url |-> <<"h", "1">>,
                       username |-> "u1", password |-> "p1", user_agent |-> "TiviMate"]
          [] a = 2 -> [id |-> 2, account_type |-> "STD", server_url |-> <<"h", "2", "/">>,
                       username |-> "u2", password |-> "p2", user_agent |-> "VLC"]]

\* a programme of a channel's EPG: start_time and end_time in seconds
Programme(title, start_ts, minutes, seconds) ==
    [title |-> title, start_time |-> Strptime(start_ts) * 60,
     end_time |-> Strptime(start_ts) * 60 + minutes * 60 + seconds]

\* Channel rows, by name; epg_data is None or the EPG's programmes
ChannelNames == {"c1", "c2", "c3"}
ChannelTable ==
    [c \in ChannelNames |->
        CASE c = "c1" -> [name |-> c, user_level |-> 1,
                          epg_data |-> [programs |-> <<
                              Programme("news", <<2025, 1, 15, 15, 0>>, 90, 30),
                              Programme("night", <<2025, 8, 1, 0, 0>>, 600, 0),
                              Programme("late", <<2025, 1, 15, 20, 0>>, 30, 0)>>]]
          [] c = "c2" -> [name |-> c, user_level |-> 10, epg_data |-> None]
          [] c = "c3" -> [name |-> c, user_level |-> 0,
                          epg_data |-> [programs |-> <<>>]]]

\* Stream rows in database order; channels in the order .first() sees them
StreamRow(pk, bag, account, channels) ==
    [pk |-> pk, custom_properties |-> bag, m3u_account |-> account, channels |-> channels]
StreamTable == <<
    StreamRow(1, Bag(JStr(S22371), JInt(<<"1">>), JNull), 2, <<"c3">>),
    StreamRow(2, Bag(JStr(S22371), JInt(<<"1">>), JNull), 1, <<"c1", "c2">>),
    StreamRow(3, Bag(JStr(S22371), JInt(<<"1">>), JNull), 0, <<"c2">>),
    StreamRow(4, Bag(JStr(S22372), JStr(<<"1">>), JNull), 0, <<"c2">>),
    StreamRow(5, Bag(JStr(S404), JInt(<<"1">>), JNull), 1, <<>>),
    StreamRow(6, Bag(JStr(S404), JInt(<<"1">>), JNull), 1, <<"c1">>),
    StreamRow(7, Bag(JStr(S500), JStr(<<"0">>), JNull), 1, <<"c2">>),
    StreamRow(8, Bag(JStr(S501), JNull, JNull), 1, <<"c3">>),
    StreamRow(9, Bag(JInt(S700), JInt(<<"1">>), JNull), 1, <<"c1">>),
    StreamRow(10, NoBag, 1, <<"c1">>) >>

\* PluginConfig rows the host may hold for this plugin: no row, or a row whose
\* settings dict has the listed keys
NoRow == [exists |-> FALSE, keys |-> {}, timezone |-> ""]
Row(keys, timezone) == [exists |-> TRUE, keys |-> keys, timezone |-> timezone]
PluginConfigs ==
    {NoRow, Row({}, ""), Row({"language"}, ""), Row({"timezone"}, "UTC"),
     Row({"timezone", "language"}, "Asia/Kolkata"), Row({"timezone"}, "Mars/Phobos")}

(***************************************************************************)
(* views.py: the pure steps of timeshift_proxy                             *)
(***************************************************************************)
DEFAULT_DURATION == 120
BUFFER_MINUTES == 5
MAX_DURATION == 480
DEFAULT_TIMEZONE == "Europe/Brussels"

Min(a, b) == IF a <= b THEN a ELSE b

\* mutant of GetProgrammeDuration: no cap
GetProgrammeDurationNoCap(channel, timestamp_str) ==
    IF ~Parses(timestamp_str) THEN DEFAULT_DURATION
    ELSE IF channel.epg_data = None THEN DEFAULT_DURATION
    ELSE LET dt == Strptime(timestamp_str) * 60
             hits == SelectSeq(channel.epg_data.programs,
                               LAMBDA p : p.start_time <= dt /\ p.end_time > dt)
         IN  IF hits = <<>> THEN DEFAULT_DURATION
             ELSE LET duration_seconds == hits[1].end_time - hits[1].start_time
                  IN  duration_seconds \div 60 + BUFFER_MINUTES

\* mutant of GetProgrammeDuration: with no covering entry the buffer alone is
\* returned, and a timestamp that does not parse gives no duration
GetProgrammeDurationNoDefault(channel, timestamp_str) ==
    IF ~Parses(timestamp_str) THEN 0
    ELSE IF channel.epg_data = None THEN DEFAULT_DURATION
    ELSE LET dt == Strptime(timestamp_str) * 60
             hits == SelectSeq(channel.epg_data.programs,
                               LAMBDA p : p.start_time <= dt /\ p.end_time > dt)
         IN  IF hits = <<>> THEN BUFFER_MINUTES
             ELSE LET duration_seconds == hits[1].end_time - hits[1].start_time
                  IN  Min(duration_seconds \div 60 + BUFFER_MINUTES, MAX_DURATION)

\* _get_programme_duration(channel, timestamp_str)
GetProgrammeDuration(channel, timestamp_str) ==
    IF ~Parses(timestamp_str) THEN DEFAULT_DURATION
    ELSE IF channel.epg_data = None THEN DEFAULT_DURATION
    ELSE LET dt == Strptime(timestamp_str) * 60
             hits == SelectSeq(channel.epg_data.programs,
                               LAMBDA p : p.start_time <= dt /\ p.end_time > dt)
         IN  IF hits = <<>> THEN DEFAULT_DURATION
             ELSE LET duration_seconds == hits[1].end_time - hits[1].start_time
                  IN  Min(duration_seconds \div 60 + BUFFER_MINUTES, MAX_DURATION)

\* the components of an upstream URL, under the layout `format` puts them in:
\*   A  {base}/streaming/timeshift.php?username=&password=&stream=&start=&duration=
\*   B  {base}/timeshift/{username}/{password}/{duration}/{start}/{stream}.ts
Url(format, m3u_account, stream_id, timestamp, duration_minutes) ==
    [format |-> format,
     base |-> RStrip(m3u_account.server_url, {"/"}),
     username |-> m3u_account.username,
     password |-> m3u_account.password,
     stream |-> stream_id,
     start |-> timestamp,
     duration |-> duration_minutes]

\* _build_timeshift_url_format_a
BuildTimeshiftUrlFormatA(m3u_account, stream_id, timestamp, duration_minutes) ==
    Url("A", m3u_account, stream_id, timestamp, duration_minutes)

\* mutant of BuildTimeshiftUrlFormatB: the default duration is put in the URL
BuildTimeshiftUrlFormatBDefaultDuration(m3u_account, stream_id, timestamp, duration_minutes) ==
    Url("B", m3u_account, stream_id, timestamp, DEFAULT_DURATION)

\* _build_timeshift_url_format_b
BuildTimeshiftUrlFormatB(m3u_account, stream_id, timestamp, duration_minutes) ==
    Url("B", m3u_account, stream_id, timestamp, duration_minutes)

\* mutant of AuthenticateUser: the secret is not compared
AuthenticateUserAnySecret(username, password) ==
    IF username \notin UserNames THEN None
    ELSE LET user == UserTable[username]
         IN  IF ~Truthy(user.custom_properties.xc_password) THEN None ELSE user

\* _authenticate_user(username, password): the user, or None
AuthenticateUser(username, password) ==
    IF username \notin UserNames THEN None                     \* User.DoesNotExist
    ELSE LET user == UserTable[username]
             xc_password == user.custom_properties.xc_password
         IN  IF ~Truthy(xc_password) THEN None
             ELSE IF ~EqStr(xc_password, password) THEN None
             ELSE user

\* mutant of XcStreamsWithId: the account's kind is not filtered on
AnyStreamsWithId(provider_stream_id) ==
    SelectSeq(StreamTable,
              LAMBDA s : EqStr(s.custom_properties.stream_id, provider_stream_id))

\* the queryset of _find_channel_by_provider_stream_id: the rows, in order, with
\* custom_properties__stream_id = str(provider_stream_id) and an XC account
XcStreamsWithId(provider_stream_id) ==
    SelectSeq(StreamTable,
              LAMBDA s : /\ EqStr(s.custom_properties.stream_id, provider_stream_id)
                         /\ AccountTable[s.m3u_account].account_type = "XC")

\* _find_channel_by_provider_stream_id: (channel, stream), or (None, None)
FindChannelByProviderStreamId(provider_stream_id) ==
    LET found == XcStreamsWithId(provider_stream_id)
    IN  IF found = <<>> THEN [channel |-> None, stream |-> None]
        ELSE IF found[1].channels = <<>> THEN [channel |-> None, stream |-> None]
        ELSE [channel |-> ChannelTable[found[1].channels[1]], stream |-> found[1]]

\* _get_plugin_timezone() on the PluginConfig row `config`
GetPluginTimezone(config) ==
    IF config.exists /\ config.keys # {}
    THEN (IF "timezone" \in config.keys THEN config.timezone ELSE DEFAULT_TIMEZONE)
    ELSE DEFAULT_TIMEZONE

\* mutant of ConvertTimestampToLocal: a failed conversion yields an empty string
ConvertTimestampOrEmpty(timestamp, timezone_str) ==
    IF Parses(timestamp) /\ timezone_str \in KnownZones
    THEN LET utc_time == Strptime(timestamp)
         IN  Strftime(utc_time + ZoneOffset(timezone_str, utc_time))
    ELSE <<>>

\* _convert_timestamp_to_local(timestamp, timezone_str): strptime or ZoneInfo
\* raising is caught, and the original timestamp returned
ConvertTimestampToLocal(timestamp, timezone_str) ==
    IF Parses(timestamp) /\ timezone_str \in KnownZones
    THEN LET utc_time == Strptime(timestamp)
         IN  Strftime(utc_time + ZoneOffset(timezone_str, utc_time))
    ELSE timestamp

\* mutant of AccessDenied: <= for <
AccessDeniedOrEqual(user, channel) == user.user_level <= channel.user_level

\* step 3 of timeshift_proxy: user.user_level < channel.user_level
AccessDenied(user, channel) == user.user_level < channel.user_level

\* mutant of ArchiveEnabled: any truthy tv_archive
ArchiveEnabledTruthy(props) == Truthy(props.tv_archive)

\* step 4 of timeshift_proxy: props.get('tv_archive') in (1, '1'); True == 1
ArchiveEnabled(props) ==
    props.tv_archive \in {JInt(<<"1">>), JStr(<<"1">>), JBool(<<"1">>)}

\* mutant of ProviderStreamId: the third path field, which is named stream_id
ProviderStreamIdThirdField(rq) == RStrip(rq.stream_id, {".", "t", "s"})

\* the provider's stream id of a request: duration.rstrip('.ts')
ProviderStreamId(rq) == RStrip(rq.duration, {".", "t", "s"})

(***************************************************************************)
(* views.py: timeshift_proxy and _proxy_stream.  A worker's slot holds the *)
(* request it handles: where it stands (pc), the path fields and headers   *)
(* (request), the locals of timeshift_proxy (frame), the upstream GETs     *)
(* issued (gets), the upstream answers received (answers), the number of   *)
(* writes it made to _url_format_cache (writes) and the client's response. *)
(***************************************************************************)
Absent == "absent"
Idle == [pc |-> "idle"]

\* _url_format_cache.get(account_id, 'A')
CacheGet(cache, account_id) ==
    IF cache[account_id] = Absent THEN "A" ELSE cache[account_id]

\* the headers _proxy_stream reads and sets, Absent where the response has none
NoHeaders ==
    [Content_Type |-> Absent, Content_Length |-> Absent,
     Content_Range |-> Absent, Accept_Ranges |-> Absent]

\* a response to the client: status, message, the upstream status the message
\* carries (0: none) and the upstream response whose body is relayed (or None)
HttpResponse(status, text, code, body) ==
    [status |-> status, text |-> text, code |-> code, body |-> body,
     headers |-> [NoHeaders EXCEPT !.Content_Type = "text/html; charset=utf-8"]]
HttpResponseForbidden(text) == HttpResponse(403, text, 0, None)
HttpResponseBadRequest(text) == HttpResponse(400, text, 0, None)
Http404(text) == HttpResponse(404, text, 0, None)

\* timeshift_proxy returning `response` before _proxy_stream is called
Return(rq, user, channel, stream, response) ==
    [pc |-> "done", request |-> rq,
     frame |-> [user |-> user, channel |-> channel, stream |-> stream],
     gets |-> <<>>, answers |-> <<>>, writes |-> 0, response |-> response]

\* mutant of Headers: "if range_header is not None" for "if range_header"
HeadersRangeIfPresent(user_agent, range_header) ==
    [User_Agent |-> user_agent, Range |-> range_header]

\* the headers of _proxy_stream's upstream requests
Headers(user_agent, range_header) ==
    [User_Agent |-> user_agent,
     Range |-> IF Truthy(range_header) THEN range_header ELSE JNull]

\* requests.get(url, headers=headers, stream=True, timeout=10)
Get(url, headers) == [url |-> url, headers |-> headers]

\* _proxy_stream up to its first requests.get
ProxyStream(rq, frame) ==
    [pc |-> "primary", request |-> rq, frame |-> frame,
     gets |-> <<Get(frame.timeshift_url, Headers(frame.user_agent, rq.range))>>,
     answers |-> <<>>, writes |-> 0, response |-> None]

\* steps 6 to 8 of timeshift_proxy: the locals _proxy_stream is called with
PlanAndBuild(rq, cache, config, user, channel, stream) ==
    LET props == stream.custom_properties
        m3u_account == AccountTable[stream.m3u_account]
        timezone_str == GetPluginTimezone(config)
        local_timestamp == ConvertTimestampToLocal(rq.timestamp, timezone_str)
        duration_minutes == GetProgrammeDuration(channel, local_timestamp)
        stream_id_value == props.stream_id.v
        preferred_format == CacheGet(cache, m3u_account.id)
    IN  [user |-> user, channel |-> channel, stream |-> stream,
         m3u_account_id |-> m3u_account.id,
         timezone_str |-> timezone_str,
         local_timestamp |-> local_timestamp,
         duration_minutes |-> duration_minutes,
         preferred_format |-> preferred_format,
         timeshift_url |->
            IF preferred_format = "B"
            THEN BuildTimeshiftUrlFormatB(m3u_account, stream_id_value,
                                          local_timestamp, duration_minutes)
            ELSE BuildTimeshiftUrlFormatA(m3u_account, stream_id_value,
                                          local_timestamp, duration_minutes),
         fallback_url |->
            IF preferred_format = "B" THEN None
            ELSE BuildTimeshiftUrlFormatB(m3u_account, stream_id_value,
                                          local_timestamp, duration_minutes),
         user_agent |-> m3u_account.user_agent]

\* mutant of TimeshiftProxy: the archive check comes before the access check
TimeshiftProxyArchiveBeforeAccess(rq, cache, config) ==
    LET provider_stream_id == ProviderStreamId(rq)
        user == AuthenticateUser(rq.username, rq.password)
        found == FindChannelByProviderStreamId(provider_stream_id)
        channel == found.channel
        stream == found.stream
    IN  IF user = None
        THEN Return(rq, None, None, None, HttpResponseForbidden("Invalid credentials"))
        ELSE IF channel = None
        THEN Return(rq, user, None, None, Http404("Channel not found"))
        ELSE IF ~ArchiveEnabled(stream.custom_properties)
        THEN Return(rq, user, channel, stream,
                    HttpResponseBadRequest("Timeshift not supported for this channel"))
        ELSE IF AccessDenied(user, channel)
        THEN Return(rq, user, channel, stream, HttpResponseForbidden("Access denied"))
        ELSE IF AccountTable[stream.m3u_account].account_type # "XC"
        THEN Return(rq, user, channel, stream,
                    HttpResponseBadRequest("Channel not from Xtream Codes provider"))
        ELSE ProxyStream(rq, PlanAndBuild(rq, cache, config, user, channel, stream))

\* mutant of TimeshiftProxy: the archive check comes after the provider was asked
TimeshiftProxyLateArchiveCheck(rq, cache, config) ==
    LET provider_stream_id == ProviderStreamId(rq)
        user == AuthenticateUser(rq.username, rq.password)
        found == FindChannelByProviderStreamId(provider_stream_id)
        channel == found.channel
        stream == found.stream
        asked == ProxyStream(rq, PlanAndBuild(rq, cache, config, user, channel, stream))
    IN  IF user = None
        THEN Return(rq, None, None, None, HttpResponseForbidden("Invalid credentials"))
        ELSE IF channel = None
        THEN Return(rq, user, None, None, Http404("Channel not found"))
        ELSE IF AccessDenied(user, channel)
        THEN Return(rq, user, channel, stream, HttpResponseForbidden("Access denied"))
        ELSE IF ~ArchiveEnabled(stream.custom_properties)
        THEN [Return(rq, user, channel, stream,
                     HttpResponseBadRequest("Timeshift not supported for this channel"))
                EXCEPT !.gets = asked.gets]
        ELSE asked

\* timeshift_proxy(request, username, password, stream_id, timestamp, duration),
\* run until it returns or _proxy_stream waits for the provider
TimeshiftProxy(rq, cache, config) ==
    LET provider_stream_id == ProviderStreamId(rq)
        user == AuthenticateUser(rq.username, rq.password)
        found == FindChannelByProviderStreamId(provider_stream_id)
        channel == found.channel
        stream == found.stream
    IN  IF user = None
        THEN Return(rq, None, None, None, HttpResponseForbidden("Invalid credentials"))
        ELSE IF channel = None
        THEN Return(rq, user, None, None, Http404("Channel not found"))
        ELSE IF AccessDenied(user, channel)
        THEN Return(rq, user, channel, stream, HttpResponseForbidden("Access denied"))
        ELSE IF ~ArchiveEnabled(stream.custom_properties)
        THEN Return(rq, user, channel, stream,
                    HttpResponseBadRequest("Timeshift not supported for this channel"))
        ELSE IF AccountTable[stream.m3u_account].account_type # "XC"
        THEN Return(rq, user, channel, stream,
                    HttpResponseBadRequest("Channel not from Xtream Codes provider"))
        ELSE ProxyStream(rq, PlanAndBuild(rq, cache, config, user, channel, stream))

\* what the provider does with a GET: a response with a status and headers, or
\* the requests exception raised instead
Response(status, headers) ==
    [kind |-> "response", status_code |-> status, headers |-> headers]
StatusAnswer(status) == Response(status, NoHeaders)
Raised(exception) == [kind |-> exception, status_code |-> 0, headers |-> NoHeaders]

\* the headers of the provider's 200 and 206 responses: none of the four, a
\* whole file, a byte range without a content type
WholeFile ==
    [Content_Type |-> "video/mp4", Content_Length |-> "1000",
     Content_Range |-> Absent, Accept_Ranges |-> "bytes"]
ByteRange ==
    [Content_Type |-> Absent, Content_Length |-> "900",
     Content_Range |-> "bytes 100-999/1000", Accept_Ranges |-> Absent]
UpstreamHeaders == {NoHeaders, WholeFile, ByteRange}

Answers ==
    {Response(s, h) : s \in {200, 206}, h \in UpstreamHeaders}
        \cup {StatusAnswer(s) : s \in {400, 404}}
        \cup {Raised("Timeout"), Raised("ConnectionError")}

\* the answers of the concurrent specification: every status and exception,
\* the responses without the four headers
ConcAnswers ==
    {StatusAnswer(s) : s \in {200, 206, 400, 404}}
        \cup {Raised("Timeout"), Raised("ConnectionError")}

\* StreamingHttpResponse(stream_generator(), content_type=..., status=...)
StreamingHttpResponse(body, content_type, status) ==
    [status |-> status, text |-> "", code |-> 0, body |-> body,
     headers |-> [NoHeaders EXCEPT !.Content_Type = content_type]]

\* response.headers.get('Content-Type', 'video/mp2t')
ContentType(headers) ==
    IF headers.Content_Type = Absent THEN "video/mp2t" ELSE headers.Content_Type

\* mutant of CopyHeaders: Content-Range is not among the copied headers
CopyHeadersNoRange(streaming_response, headers) ==
    [streaming_response EXCEPT
        !.headers.Content_Length = headers.Content_Length,
        !.headers.Accept_Ranges = headers.Accept_Ranges]

\* "for header in ['Content-Length', 'Content-Range', 'Accept-Ranges']:
\*      if header in response.headers: streaming_response[header] = ..."
CopyHeaders(streaming_response, headers) ==
    [streaming_response EXCEPT
        !.headers.Content_Length = headers.Content_Length,
        !.headers.Content_Range = headers.Content_Range,
        !.headers.Accept_Ranges = headers.Accept_Ranges]

\* the except clauses of _proxy_stream
OnException(slot, answer) ==
    [slot EXCEPT !.pc = "done",
                 !.answers = Append(@, answer),
                 !.response = IF answer.kind = "Timeout"
                              THEN HttpResponseBadRequest("Provider timeout")
                              ELSE HttpResponseBadRequest("Provider connection error")]

\* mutant of Relay: the error carries the first attempt's status
RelayFirstStatus(slot, answer) ==
    [slot EXCEPT !.pc = "done",
                 !.answers = Append(@, answer),
                 !.response =
                    IF answer.status_code \notin {200, 206}
                    THEN HttpResponse(400, "Provider error",
                                      Append(slot.answers, answer)[1].status_code, None)
                    ELSE CopyHeaders(
                            StreamingHttpResponse(slot.gets[Len(slot.gets)].url,
                                                  ContentType(answer.headers),
                                                  answer.status_code),
                            answer.headers)]

\* _proxy_stream from "if response.status_code not in (200, 206)" on: the
\* response for the last attempt's answer, given to the client
Relay(slot, answer) ==
    [slot EXCEPT !.pc = "done",
                 !.answers = Append(@, answer),
                 !.response =
                    IF answer.status_code \notin {200, 206}
                    THEN HttpResponse(400, "Provider error", answer.status_code, None)
                    ELSE CopyHeaders(
                            StreamingHttpResponse(slot.gets[Len(slot.gets)].url,
                                                  ContentType(answer.headers),
                                                  answer.status_code),
                            answer.headers)]

\* "if response.status_code == 400 and fallback_url"
ShouldFallback(status_code, fallback_url) ==
    status_code = 400 /\ fallback_url # None

\* mutant of ShouldCache: the fallback's status is not looked at
ShouldCacheAnyStatus(status_code, m3u_account_id) == m3u_account_id # 0

\* "if response.status_code in (200, 206) and m3u_account_id"
ShouldCache(status_code, m3u_account_id) ==
    status_code \in {200, 206} /\ m3u_account_id # 0

\* mutant of OnPrimary: a timed-out primary GET is retried on the fallback URL
OnPrimaryRetryOnTimeout(slot, answer) ==
    IF answer.kind = "ConnectionError" THEN OnException(slot, answer)
    ELSE IF (answer.kind = "Timeout" /\ slot.frame.fallback_url # None)
            \/ ShouldFallback(answer.status_code, slot.frame.fallback_url)
    THEN [slot EXCEPT !.pc = "fallback",
                      !.answers = Append(@, answer),
                      !.gets = Append(@, Get(slot.frame.fallback_url, slot.gets[1].headers))]
    ELSE IF answer.kind = "Timeout" THEN OnException(slot, answer)
    ELSE Relay(slot, answer)

\* _proxy_stream once the primary GET is answered
OnPrimary(slot, answer) ==
    IF answer.kind # "response" THEN OnException(slot, answer)
    ELSE IF ShouldFallback(answer.status_code, slot.frame.fallback_url)
    THEN [slot EXCEPT !.pc = "fallback",
                      !.answers = Append(@, answer),
                      !.gets = Append(@, Get(slot.frame.fallback_url, slot.gets[1].headers))]
    ELSE Relay(slot, answer)

\* mutant of OnFallback: a fallback GET answered 400 is repeated once
OnFallbackRetry(slot, answer) ==
    IF answer.kind # "response" THEN OnException(slot, answer)
    ELSE IF answer.status_code = 400 /\ Len(slot.gets) < 3
    THEN [slot EXCEPT !.answers = Append(@, answer),
                      !.gets = Append(@, Get(slot.frame.fallback_url, slot.gets[1].headers))]
    ELSE LET cached == ShouldCache(answer.status_code, slot.frame.m3u_account_id)
         IN  Relay([slot EXCEPT !.writes = IF cached THEN @ + 1 ELSE @], answer)

\* _proxy_stream once the fallback GET is answered
OnFallback(slot, answer) ==
    IF answer.kind # "response" THEN OnException(slot, answer)
    ELSE LET cached == ShouldCache(answer.status_code, slot.frame.m3u_account_id)
         IN  Relay([slot EXCEPT !.writes = IF cached THEN @ + 1 ELSE @], answer)

\* mutant of CacheAfterFallback: the preference is stored when the fallback
\* GET raised, too
CacheAfterFallbackOnException(cache, slot, answer) ==
    IF answer.kind # "response"
       \/ ShouldCache(answer.status_code, slot.frame.m3u_account_id)
    THEN [cache EXCEPT ![slot.frame.m3u_account_id] = "B"]
    ELSE cache

\* mutant of CacheAfterFallback: a rejected fallback removes the preference
CacheAfterFallbackForget(cache, slot, answer) ==
    IF answer.kind = "response"
       /\ ShouldCache(answer.status_code, slot.frame.m3u_account_id)
    THEN [cache EXCEPT ![slot.frame.m3u_account_id] = "B"]
    ELSE [cache EXCEPT ![slot.frame.m3u_account_id] = Absent]

\* mutant of CacheAfterFallback: the preference is stored for every account
CacheAfterFallbackEveryAccount(cache, slot, answer) ==
    IF answer.kind = "response"
       /\ ShouldCache(answer.status_code, slot.frame.m3u_account_id)
    THEN [a \in DOMAIN cache |-> "B"]
    ELSE cache

\* _url_format_cache after the fallback GET is answered
CacheAfterFallback(cache, slot, answer) ==
    IF answer.kind = "response"
       /\ ShouldCache(answer.status_code, slot.frame.m3u_account_id)
    THEN [cache EXCEPT ![slot.frame.m3u_account_id] = "B"]
    ELSE cache

(***************************************************************************)
(* Requests the clients send.  Every field is one that                     *)
(* TIMESHIFT_PATTERN of hooks._patch_url_resolver accepts: username and    *)
(* password non-empty, the third and fifth fields digits, the timestamp    *)
(* digits, '-' and ':'.                                                    *)
(***************************************************************************)
T_Scenario == <<2025, 1, 15, 14, 30>>      \* "2025-01-15:14-30"
T_NewYear  == <<2025, 12, 31, 23, 30>>     \* "2025-12-31:23-30"
T_Summer   == <<2025, 7, 31, 22, 45>>      \* "2025-07-31:22-45"
T_Feb30    == <<2025, 2, 30, 14, 30>>      \* "2025-02-30:14-30", no such day
NoRange == JNull                           \* no Range header
EmptyRange == JStr(<<>>)                   \* "Range:" with an empty value
SomeRange == JStr(<<"b", "y", "t", "e", "s", "=", "1", "0", "0", "-">>)

Requests ==
    [username : UserNames \cup {"ghost"},
     password : {PwAlice, PwDave},
     stream_id : {S155, S22372},
     timestamp : {T_Scenario, T_NewYear, T_Summer, T_Feb30},
     duration : {S22371, S22372, S404, S500, S501, S700, S99999},
     range : {NoRange, EmptyRange, SomeRange}]

\* the requests of the concurrent specification: one user, right or wrong
\* secret, one stream of each Xtream-Codes account
ConcRequests ==
    [username : {"alice"},
     password : {PwAlice, PwDave},
     stream_id : {S155},
     timestamp : {T_Scenario},
     duration : {S22371, S22372},
     range : {SomeRange}]

(***************************************************************************)
(* Actions                                                                 *)
(***************************************************************************)
(***************************************************************************)
(* hooks.py: the patches on the host.  hooks.wrappers[f] counts the        *)
(* wrappers put around host function f, the last one being what the host   *)
(* calls; hooks.original[f] says what the module global _original_f refers *)
(* to: nothing, the host's own function (0), or the k-th wrapper (k).      *)
(***************************************************************************)
HostFunctions ==
    {"xc_get_live_streams", "stream_xc", "xc_get_epg", "generate_epg", "resolve"}

\* "_original_... = None"
NoOriginal == -1

\* the module globals of hooks.py and plugin.py when the modules are loaded
NoHooks ==
    [installed |-> FALSE,
     wrappers |-> [f \in HostFunctions |-> 0],
     original |-> [f \in HostFunctions |-> NoOriginal]]

\* _patch_xc_get_live_streams, _patch_stream_xc, _patch_xc_get_epg and
\* _patch_generate_epg: "_original_f = module.f; module.f = patched_f"
Patch(h, f) ==
    [h EXCEPT !.original[f] = h.wrappers[f], !.wrappers[f] = @ + 1]

\* _patch_url_resolver: "if _original_resolve is not None: return"
PatchUrlResolver(h) ==
    IF h.original["resolve"] # NoOriginal THEN h ELSE Patch(h, "resolve")

\* the patch steps of install_hooks, in the order it calls them
PatchSteps ==
    <<"xc_get_live_streams", "stream_xc", "xc_get_epg", "generate_epg", "resolve">>

\* the first n patch steps of install_hooks
RECURSIVE InstallSteps(_, _)
InstallSteps(h, n) ==
    IF n = 0 THEN h
    ELSE LET before == InstallSteps(h, n - 1)
         IN  IF PatchSteps[n] = "resolve" THEN PatchUrlResolver(before)
             ELSE Patch(before, PatchSteps[n])

\* install_hooks: the five steps inside one try; raises_at = 0 when none of
\* them raises (it returns True), else the number of the step that raises
\* before it has assigned anything (it returns False); what the steps
\* before it have patched stays patched
InstallHooks(h, raises_at) ==
    IF raises_at = 0 THEN InstallSteps(h, Len(PatchSteps))
    ELSE InstallSteps(h, raises_at - 1)

\* _auto_install_hooks: "if install_hooks(): _hooks_installed = True"
AutoInstallHooks(h, raises_at) ==
    IF h.installed THEN h
    ELSE [InstallHooks(h, raises_at) EXCEPT !.installed = (raises_at = 0)]

\* what "_original_f(...)" in a wrapper of f ends in: the wrappers read the
\* module global when they are called, so once it refers to a wrapper, that
\* wrapper calls itself until the interpreter's recursion limit
CallOriginal(h, f) ==
    IF h.original[f] = 0 THEN "host" ELSE "RecursionError"

\* mutant of IsPluginEnabled: a row that cannot be read counts as enabled
IsPluginEnabledUnlessOff(config, flag) == config.exists => flag

\* _is_plugin_enabled: PluginConfig.objects.get(...).enabled, False when the
\* row cannot be read
IsPluginEnabled(config, flag) == config.exists /\ flag

Digits == {"0", "1", "2", "3", "4", "5", "6", "7", "8", "9"}

\* s.startswith(prefix)
StartsWith(s, prefix) ==
    Len(s) >= Len(prefix) /\ SubSeq(s, 1, Len(prefix)) = prefix

\* the fields of s between the occurrences of sep
RECURSIVE Split(_, _)
Split(s, sep) ==
    IF \A i \in 1..Len(s) : s[i] # sep THEN <<s>>
    ELSE LET i == CHOOSE i \in 1..Len(s) :
                      s[i] = sep /\ \A j \in 1..(i - 1) : s[j] # sep
         IN  <<SubSeq(s, 1, i - 1)>> \o Split(SubSeq(s, i + 1, Len(s)), sep)

\* the fields joined by sep
RECURSIVE Join(_, _)
Join(fields, sep) ==
    IF Len(fields) = 1 THEN fields[1]
    ELSE fields[1] \o <<sep>> \o Join(Tail(fields), sep)

W_timeshift == <<"t", "i", "m", "e", "s", "h", "i", "f", "t">>
W_ts == <<".", "t", "s">>

\* mutant of TIMESHIFT_PATTERN: the last field need not end in ".ts"
TIMESHIFT_PATTERN_AnyLastField(path) ==
    LET rest == IF path # <<>> /\ path[1] = "/" THEN Tail(path) ELSE path
        f == Split(rest, "/")
    IN  IF /\ Len(f) = 6
           /\ f[1] = W_timeshift
           /\ f[2] # <<>>
           /\ f[3] # <<>>
           /\ f[4] # <<>>
           /\ f[6] # <<>>
        THEN [username |-> f[2], password |-> f[3], stream_id |-> f[4],
              timestamp |-> f[5], duration |-> f[6]]
        ELSE None

\* TIMESHIFT_PATTERN.match(path).groupdict(), None without a match:
\* ^/?timeshift/([^/]+)/([^/]+)/(\d+)/([\d\-:]+)/(\d+)\.ts$ , where $ is
\* the end of the path or the place before a newline that ends it
TIMESHIFT_PATTERN(path) ==
    LET chomped == IF path # <<>> /\ path[Len(path)] = "\n"
                   THEN SubSeq(path, 1, Len(path) - 1) ELSE path
        rest == IF chomped # <<>> /\ chomped[1] = "/" THEN Tail(chomped) ELSE chomped
        f == Split(rest, "/")
        n == Len(f[6])
    IN  IF /\ Len(f) = 6
           /\ f[1] = W_timeshift
           /\ f[2] # <<>>
           /\ f[3] # <<>>
           /\ f[4] # <<>> /\ \A i \in 1..Len(f[4]) : f[4][i] \in Digits
           /\ f[5] # <<>> /\ \A i \in 1..Len(f[5]) : f[5][i] \in Digits \cup {"-", ":"}
           /\ n > 3
           /\ SubSeq(f[6], n - 2, n) = W_ts
           /\ \A i \in 1..(n - 3) : f[6][i] \in Digits
        THEN [username |-> f[2], password |-> f[3], stream_id |-> f[4],
              timestamp |-> f[5], duration |-> SubSeq(f[6], 1, n - 3)]
        ELSE None

\* Channel primary keys
ChannelIds == [c \in ChannelNames |->
                 CASE c = "c1" -> 404 [] c = "c2" -> 7 [] c = "c3" -> 22371]

\* pathlib.Path(channel_id).stem: the name up to its last dot, unless that
\* dot is the first or the last character
Stem(s) ==
    LET dots == {i \in 1..Len(s) : s[i] = "."}
        last == CHOOSE i \in dots : \A j \in dots : j <= i
    IN  IF dots # {} /\ 1 < last /\ last < Len(s) THEN SubSeq(s, 1, last - 1) ELSE s

DigitValue(d) ==
    CASE d = "0" -> 0 [] d = "1" -> 1 [] d = "2" -> 2 [] d = "3" -> 3 [] d = "4" -> 4
      [] d = "5" -> 5 [] d = "6" -> 6 [] d = "7" -> 7 [] d = "8" -> 8 [] d = "9" -> 9

\* int(s), for s of decimal digits
RECURSIVE ToInt(_)
ToInt(s) ==
    IF s = <<>> THEN 0
    ELSE ToInt(SubSeq(s, 1, Len(s) - 1)) * 10 + DigitValue(s[Len(s)])

\* the internal-id lookup of patched_stream_xc, for a user without channel
\* profiles: int(channel_id_str) raising ValueError leaves the channel None;
\* below level 10 the channel's level must not exceed the user's
InternalLookup(user, channel_id_str) ==
    IF channel_id_str = <<>> \/ \E i \in 1..Len(channel_id_str) :
                                    channel_id_str[i] \notin Digits
    THEN None
    ELSE LET rows == {c \in ChannelNames :
                        /\ ChannelIds[c] = ToInt(channel_id_str)
                        /\ user.user_level < 10 =>
                              ChannelTable[c].user_level <= user.user_level}
         IN  IF rows = {} THEN None ELSE ChannelTable[CHOOSE c \in rows : TRUE]

\* Stream.objects.filter(custom_properties__stream_id=channel_id_str,
\* m3u_account__account_type='XC').first(), then stream.channels.first()
ProviderLookup(channel_id_str) ==
    LET found == XcStreamsWithId(channel_id_str)
    IN  IF found = <<>> THEN None
        ELSE IF found[1].channels = <<>> THEN None
        ELSE ChannelTable[found[1].channels[1]]

\* mutant of LiveChannel: the internal id is tried first
LiveChannelInternalFirst(user, channel_id_str) ==
    IF InternalLookup(user, channel_id_str) # None
    THEN [channel |-> InternalLookup(user, channel_id_str), lookups |-> <<"internal">>]
    ELSE [channel |-> ProviderLookup(channel_id_str),
          lookups |-> <<"internal", "provider">>]

\* patched_stream_xc from "channel = None" to "if not channel": the channel
\* and the lookups made for it
LiveChannel(user, channel_id_str) ==
    IF ProviderLookup(channel_id_str) # None
    THEN [channel |-> ProviderLookup(channel_id_str), lookups |-> <<"provider">>]
    ELSE [channel |-> InternalLookup(user, channel_id_str),
          lookups |-> <<"provider", "internal">>]

\* the outcome of a call of stream_xc: who answered (the plugin's wrapper,
\* the host's own stream_xc, or nobody), the status, the lookups made, the
\* channel they gave and the channel handed to stream_ts
LiveOut(rq, via, status, lookups, found, served) ==
    [hook |-> "stream_xc", request |-> rq, via |-> via, status |-> status,
     lookups |-> lookups, found |-> found, served |-> served]

\* the host's own stream_xc
OriginalStreamXc(rq, via) == LiveOut(rq, via, 0, <<>>, "", "")

\* patched_stream_xc
\* mutant of PatchedStreamXc: no check of the user's level after the lookups
PatchedStreamXcNoLevelCheck(rq, config, flag, h) ==
    IF ~IsPluginEnabled(config, flag)
    THEN OriginalStreamXc(rq, CallOriginal(h, "stream_xc"))
    ELSE IF rq.username \notin UserNames
    THEN LiveOut(rq, "patched", 404, <<>>, "", "")
    ELSE LET user == UserTable[rq.username]
             channel_id_str == Stem(rq.channel_id)
             xc_password == user.custom_properties.xc_password
             live == LiveChannel(user, channel_id_str)
         IN  IF xc_password = JNull \/ ~EqStr(xc_password, rq.password)
             THEN LiveOut(rq, "patched", 401, <<>>, "", "")
             ELSE IF live.channel = None
             THEN LiveOut(rq, "patched", 404, live.lookups, "", "")
             ELSE LiveOut(rq, "patched", 200, live.lookups, live.channel.name,
                          live.channel.name)

PatchedStreamXc(rq, config, flag, h) ==
    IF ~IsPluginEnabled(config, flag)
    THEN OriginalStreamXc(rq, CallOriginal(h, "stream_xc"))
    ELSE IF rq.username \notin UserNames
    THEN LiveOut(rq, "patched", 404, <<>>, "", "")       \* get_object_or_404
    ELSE LET user == UserTable[rq.username]
             channel_id_str == Stem(rq.channel_id)
             xc_password == user.custom_properties.xc_password
             live == LiveChannel(user, channel_id_str)
         IN  IF xc_password = JNull \/ ~EqStr(xc_password, rq.password)
             THEN LiveOut(rq, "patched", 401, <<>>, "", "")
             ELSE IF live.channel = None
             THEN LiveOut(rq, "patched", 404, live.lookups, "", "")
             ELSE IF user.user_level < live.channel.user_level
             THEN LiveOut(rq, "patched", 404, live.lookups, live.channel.name, "")
             ELSE LiveOut(rq, "patched", 200, live.lookups, live.channel.name,
                          live.channel.name)

\* no patched function has been called yet
NoCall == [hook |-> "none"]

\* ResolverMatch(timeshift_proxy, (), match.groupdict(), route=path)
ResolverMatch(func, kwargs, route) ==
    [hook |-> "resolve", func |-> func, kwargs |-> kwargs, route |-> route]

\* the host's own URLResolver.resolve, which is given the path and answers
\* with one of the host's routes (the catch-all included)
OriginalResolve(path) == ResolverMatch("host", None, path)

\* patched_resolve
PatchedResolve(path, config, flag) ==
    IF /\ IsPluginEnabled(config, flag)
       /\ \/ StartsWith(path, <<"/">> \o W_timeshift \o <<"/">>)
          \/ StartsWith(path, W_timeshift \o <<"/">>)
       /\ TIMESHIFT_PATTERN(path) # None
    THEN ResolverMatch("timeshift_proxy", TIMESHIFT_PATTERN(path), path)
    ELSE OriginalResolve(path)

\* channel.streams.order_by('channelstream__order'): the primary keys of the
\* streams of each channel, in the order the channel gives them
ChannelStreams ==
    [c \in ChannelNames |->
        CASE c = "c1" -> <<2, 6, 9, 10>>
          [] c = "c2" -> <<3, 2, 4, 7>>
          [] c = "c3" -> <<8, 1>>]

\* channel.streams.order_by('channelstream__order').first()
FirstStream(c) ==
    IF ChannelStreams[c] = <<>> THEN None
    ELSE StreamTable[CHOOSE i \in 1..Len(StreamTable) :
                        StreamTable[i].pk = ChannelStreams[c][1]]

\* str(n) of a natural number
RECURSIVE Str(_)
Str(n) ==
    LET d == <<"0", "1", "2", "3", "4", "5", "6", "7", "8", "9">>[(n % 10) + 1]
    IN  IF n < 10 THEN <<d>> ELSE Append(Str(n \div 10), d)

\* whether int(j) returns: digits, a number or a boolean
CanInt(j) ==
    \/ j.t \in {"int", "bool"}
    \/ j.t = "str" /\ j.v # <<>> /\ \A i \in 1..Len(j.v) : j.v[i] \in Digits

\* int(props.get(key, 0)) where it returns
IntOf(j) == IF j.t = "null" THEN 0 ELSE ToInt(j.v)

\* a key that a stream_data of the host does not have
NoKey == -1

\* one entry of the list that the host's xc_get_live_streams returns
StreamData(stream_id) == [stream_id |-> stream_id, tv_archive |-> NoKey]

\* the body of the loop of patched_xc_get_live_streams: an entry whose
\* channel or first stream is missing is left alone; int() of a value that
\* is no number ends the work on the entry where it stands
Enhance(stream_data) ==
    LET rows == {c \in ChannelNames : ChannelIds[c] = stream_data.stream_id}
    IN  IF rows = {} THEN stream_data
        ELSE LET channel == CHOOSE c \in rows : TRUE
                 first_stream == FirstStream(channel)
             IN  IF first_stream = None THEN stream_data
                 ELSE LET props == first_stream.custom_properties
                          provider_stream_id == props.stream_id
                      IN  IF props.tv_archive.t # "null" /\ ~CanInt(props.tv_archive)
                          THEN stream_data
                          ELSE IF ~Truthy(provider_stream_id)
                          THEN [stream_data EXCEPT !.tv_archive = IntOf(props.tv_archive)]
                          ELSE IF ~CanInt(provider_stream_id)
                          THEN [stream_data EXCEPT !.tv_archive = IntOf(props.tv_archive)]
                          ELSE [stream_id |-> IntOf(provider_stream_id),
                                tv_archive |-> IntOf(props.tv_archive)]

ListOut(streams, via, result) ==
    [hook |-> "xc_get_live_streams", streams |-> streams, via |-> via,
     result |-> result]

\* the host's xc_get_live_streams, reached through `via`
OriginalXcGetLiveStreams(streams, via) ==
    ListOut(streams, via, IF via = "host" THEN streams ELSE <<>>)

\* patched_xc_get_live_streams: the original is called first, whatever the
\* flag says
PatchedXcGetLiveStreams(streams, config, flag, h) ==
    LET via == CallOriginal(h, "xc_get_live_streams")
    IN  IF via # "host" \/ ~IsPluginEnabled(config, flag)
        THEN OriginalXcGetLiveStreams(streams, via)
        ELSE ListOut(streams, "patched",
                     [i \in 1..Len(streams) |-> Enhance(streams[i])])

\* _get_plugin_config: the timezone of the dictionary it returns (the
\* language is not followed). It reads the attribute `config` of the row,
\* where _get_plugin_timezone reads `settings`; has_config tells whether the
\* row of the host has such an attribute (holding the settings) or reading
\* it raises AttributeError, which the function swallows
GetPluginConfig(config, has_config) ==
    IF config.exists /\ has_config /\ config.keys # {}
    THEN [timezone |-> IF "timezone" \in config.keys THEN config.timezone
                       ELSE DEFAULT_TIMEZONE]
    ELSE [timezone |-> DEFAULT_TIMEZONE]

XmlOut(via, converted) ==
    [hook |-> "generate_epg", via |-> via, converted |-> converted]

\* the host's generate_epg, reached through `via`
OriginalGenerateEpg(via) == XmlOut(via, "")

\* patched_generate_epg: the timestamps of the host's XMLTV are converted
\* to the timezone of _get_plugin_config; any error falls back to the
\* original
PatchedGenerateEpg(has_config, config, flag, h) ==
    LET via == CallOriginal(h, "generate_epg")
        timezone_str == GetPluginConfig(config, has_config).timezone
    IN  IF ~IsPluginEnabled(config, flag) \/ via # "host"
           \/ timezone_str \notin KnownZones
        THEN OriginalGenerateEpg(via)
        ELSE XmlOut("patched", timezone_str)

\* request.GET of a request for the EPG: the query object that the caller
\* made, or a copy of it
Query(owner, stream_id) == [owner |-> owner, stream_id |-> stream_id]

EpgOut(rq, via, status, found, called_with, get_after, timezone) ==
    [hook |-> "xc_get_epg", request |-> rq, via |-> via, status |-> status,
     found |-> found, called_with |-> called_with, get_after |-> get_after,
     timezone |-> timezone]

\* the host's xc_get_epg called with request.GET = get, reached through
\* `via`; it returns (200) or raises (404); get_after is request.GET when
\* the wrapper is left
OriginalXcGetEpg(rq, via, host, found, get, get_after) ==
    EpgOut(rq, via, IF via = "host" /\ host = "returns" THEN 200 ELSE 404,
           found, get, get_after, "")

\* mutant of Delegate: request.GET is not put back
DelegateNoRestore(rq, via, host, channel) ==
    LET original_get == Query("caller", rq.stream_id)
        new_get == Query("copy", Str(ChannelIds[channel.name]))
    IN  OriginalXcGetEpg(rq, via, host, channel.name, new_get, new_get)

\* the else branch of patched_xc_get_epg: "new_get = original_get.copy();
\* new_get['stream_id'] = str(channel.id); request.GET = new_get; try:
\* return _original_xc_get_epg(...) finally: request.GET = original_get"
Delegate(rq, via, host, channel) ==
    LET original_get == Query("caller", rq.stream_id)
        new_get == Query("copy", Str(ChannelIds[channel.name]))
    IN  OriginalXcGetEpg(rq, via, host, channel.name, new_get, original_get)

\* patched_xc_get_epg(request, user, short); request.GET.get('stream_id') is
\* rq.stream_id, the empty string when the parameter is missing or empty
PatchedXcGetEpg(rq, host, has_config, config, flag, h) ==
    LET original_get == Query("caller", rq.stream_id)
        via == CallOriginal(h, "xc_get_epg")
    IN  IF ~IsPluginEnabled(config, flag)
        THEN OriginalXcGetEpg(rq, via, host, "", original_get, original_get)
        ELSE IF rq.stream_id = <<>>
        THEN EpgOut(rq, "patched", 404, "", None, original_get, "")
        ELSE LET user == UserTable[rq.username]
                 channel == LiveChannel(user, rq.stream_id).channel
             IN  IF channel = None
                 THEN EpgOut(rq, "patched", 404, "", None, original_get, "")
                 ELSE LET first_stream == FirstStream(channel.name)
                          has_tv_archive ==
                              /\ first_stream # None
                              /\ ArchiveEnabled(first_stream.custom_properties)
                          timezone_str == GetPluginConfig(config, has_config).timezone
                      IN  IF has_tv_archive /\ ~rq.short
                          THEN IF timezone_str \in KnownZones
                               THEN EpgOut(rq, "patched", 200, channel.name, None,
                                           original_get, timezone_str)
                               ELSE EpgOut(rq, "patched", 404, channel.name, None,
                                           original_get, "")
                          ELSE Delegate(rq, via, host, channel)

\* a request that holds no upstream response and relays no body
NoRelay == [open |-> {}, body |-> "none", chunks |-> 0, raised |-> "none"]

\* mutant of ResponseClose: the response is left open
ResponseCloseNot(open, n) == open

\* "response.close()" on the response to GET n
ResponseClose(open, n) == open \ {n}

\* "error_preview = response.text[:200]": the body of the response to GET n is
\* read to its end, which gives the connection back
ReadText(open, n) == open \ {n}

\* the upstream side of a request once `answer` to its outstanding GET has
\* taken the slot to `next`: requests.get(..., stream=True) returns with the
\* response open; it is closed before another GET is issued, read whole for
\* an error status, and handed to stream_generator on 200 and 206
Upstream(before, slot, answer, next) ==
    LET n == Len(slot.gets)
        opened == before.open \cup {n}
    IN  IF answer.kind # "response" THEN before
        ELSE IF Len(next.gets) > n
        THEN [before EXCEPT !.open = ResponseClose(opened, n)]
        ELSE IF answer.status_code \in {200, 206}
        THEN [before EXCEPT !.open = opened, !.body = "relaying"]
        ELSE [before EXCEPT !.open = ReadText(opened, n)]

\* the history of first successes after `answer` to the slot's outstanding GET:
\* a 200 or 206 is the account's first success unless one is on record
FirstOk(first, slot, answer) ==
    LET account_id == slot.frame.m3u_account_id
    IN  IF /\ answer.kind = "response"
           /\ answer.status_code \in {200, 206}
           /\ account_id \in DOMAIN first
           /\ first[account_id] = Absent
        THEN [first EXCEPT ![account_id] = slot.gets[Len(slot.gets)].url.format]
        ELSE first

\* the resolver hands a catch-up request to timeshift_proxy
Receive(w, rq) ==
    /\ req[w].pc = "idle"
    /\ req' = [req EXCEPT ![w] = TimeshiftProxy(rq, url_format_cache, plugin_config)]
    /\ UNCHANGED <<url_format_cache, plugin_config, fallback_ok, first_ok, relay,
                 host_vars, call>>

\* the provider answers the primary GET
PrimaryAnswer(w, answer) ==
    /\ req[w].pc = "primary"
    /\ req' = [req EXCEPT ![w] = OnPrimary(@, answer)]
    /\ first_ok' = FirstOk(first_ok, req[w], answer)
    /\ relay' = [relay EXCEPT ![w] = Upstream(@, req[w], answer, req'[w])]
    /\ UNCHANGED <<url_format_cache, plugin_config, fallback_ok, host_vars, call>>

\* the provider answers the fallback GET
FallbackAnswer(w, answer) ==
    /\ req[w].pc = "fallback"
    /\ req' = [req EXCEPT ![w] = OnFallback(@, answer)]
    /\ url_format_cache' = CacheAfterFallback(url_format_cache, req[w], answer)
    /\ fallback_ok' = IF answer.kind = "response" /\ answer.status_code \in {200, 206}
                      THEN fallback_ok \cup {req[w].frame.m3u_account_id}
                      ELSE fallback_ok
    /\ first_ok' = FirstOk(first_ok, req[w], answer)
    /\ relay' = [relay EXCEPT ![w] = Upstream(@, req[w], answer, req'[w])]
    /\ UNCHANGED <<plugin_config, host_vars, call>>

\* the response has gone to the client; the worker takes the next request
Finish(w) ==
    /\ req[w].pc = "done"
    /\ req' = [req EXCEPT ![w] = Idle]
    /\ relay' = [relay EXCEPT ![w] = NoRelay]
    /\ UNCHANGED <<url_format_cache, plugin_config, fallback_ok, first_ok, host_vars, call>>

\* stream_generator yields one more chunk of the upstream body to the client
Chunk(w) ==
    /\ relay[w].body = "relaying"
    /\ relay[w].chunks < MaxChunks
    /\ relay' = [relay EXCEPT ![w].chunks = @ + 1]
    /\ UNCHANGED <<url_format_cache, plugin_config, req, fallback_ok, first_ok,
                   host_vars, call>>

\* iter_content is exhausted: the body has been read to its end, which gives
\* the connection back, and stream_generator returns
EndOfBody(w) ==
    /\ relay[w].body = "relaying"
    /\ relay' = [relay EXCEPT ![w].body = "ended", ![w].open = {}]
    /\ UNCHANGED <<url_format_cache, plugin_config, req, fallback_ok, first_ok,
                   host_vars, call>>

\* the upstream breaks while a chunk is read: iter_content raises, the
\* library drops the connection, and nothing in stream_generator catches it
ReadError(w, exception) ==
    /\ relay[w].body = "relaying"
    /\ relay' = [relay EXCEPT ![w].body = "failed", ![w].open = {},
                              ![w].raised = exception]
    /\ UNCHANGED <<url_format_cache, plugin_config, req, fallback_ok, first_ok,
                   host_vars, call>>

\* the client goes away: the host closes stream_generator, which stops at its
\* yield; no statement closes the response, so the connection is given back
\* when the interpreter collects the response object, or stays open
Disconnect(w, collected) ==
    /\ relay[w].body = "relaying"
    /\ relay' = [relay EXCEPT ![w].body = "disconnected",
                              ![w].open = IF collected THEN {} ELSE @]
    /\ UNCHANGED <<url_format_cache, plugin_config, req, fallback_ok, first_ok,
                   host_vars, call>>

\* the host saves other plugin settings (read afresh by every request)
SaveSettings(config) ==
    /\ config # plugin_config
    /\ plugin_config' = config
    /\ UNCHANGED <<url_format_cache, req, fallback_ok, first_ok, relay,
                 host_vars, call>>

\* the process restarts: the modules are loaded again, _url_format_cache = {}
\* and the hooks are installed on the fresh host
Restart ==
    /\ url_format_cache' = [a \in AccountIds |-> Absent]
    /\ req' = [w \in Workers |-> Idle]
    /\ fallback_ok' = {}
    /\ first_ok' = [a \in DOMAIN first_ok |-> Absent]
    /\ relay' = [w \in Workers |-> NoRelay]
    /\ hooks' = AutoInstallHooks(NoHooks, 0)
    /\ UNCHANGED <<plugin_config, enabled, hook_out, call>>

engine_vars == <<url_format_cache, req, fallback_ok, first_ok, relay>>

\* the host routes a live request to stream_xc: the host's own function
\* until the hooks are installed, the last wrapper after
StreamXc(rq) ==
    /\ hook_out' = IF hooks.wrappers["stream_xc"] = 0
                   THEN OriginalStreamXc(rq, "host")
                   ELSE PatchedStreamXc(rq, plugin_config, enabled, hooks)
    /\ UNCHANGED <<engine_vars, call, plugin_config, enabled, hooks>>

\* plugin.py at import, or at the first request_finished signal
AutoInstall(raises_at) ==
    /\ hooks.wrappers["xc_get_live_streams"] < MaxInstalls
    /\ hooks' = AutoInstallHooks(hooks, raises_at)
    /\ UNCHANGED <<engine_vars, call, plugin_config, enabled, hook_out>>

\* Plugin.run(action, params, context): "enable" calls install_hooks,
\* "disable" leaves the hooks in place, anything else is an error result
PluginRun(action, raises_at) ==
    /\ hooks.wrappers["xc_get_live_streams"] < MaxInstalls
    /\ hooks' = IF action = "enable" THEN InstallHooks(hooks, raises_at) ELSE hooks
    /\ UNCHANGED <<engine_vars, call, plugin_config, enabled, hook_out>>

\* a client asks for the list of live streams; `streams` is what the host's
\* function returns
XcGetLiveStreams(streams) ==
    /\ hook_out' = IF hooks.wrappers["xc_get_live_streams"] = 0
                   THEN OriginalXcGetLiveStreams(streams, "host")
                   ELSE PatchedXcGetLiveStreams(streams, plugin_config, enabled, hooks)
    /\ UNCHANGED <<engine_vars, call, plugin_config, enabled, hooks>>

\* a client asks for the EPG of one stream; `host` is what the host's
\* function does when it is reached
XcGetEpg(rq, host, has_config) ==
    /\ hook_out' = IF hooks.wrappers["xc_get_epg"] = 0
                   THEN OriginalXcGetEpg(rq, "host", host, "",
                                         Query("caller", rq.stream_id),
                                         Query("caller", rq.stream_id))
                   ELSE PatchedXcGetEpg(rq, host, has_config, plugin_config,
                                        enabled, hooks)
    /\ UNCHANGED <<engine_vars, call, plugin_config, enabled, hooks>>

\* a client asks for the XMLTV guide
GenerateEpg(has_config) ==
    /\ hook_out' = IF hooks.wrappers["generate_epg"] = 0
                   THEN OriginalGenerateEpg("host")
                   ELSE PatchedGenerateEpg(has_config, plugin_config, enabled, hooks)
    /\ UNCHANGED <<engine_vars, call, plugin_config, enabled, hooks>>

\* the host's plugin manager toggles the enabled flag of the row
SetEnabled(flag) ==
    /\ flag # enabled
    /\ enabled' = flag
    /\ UNCHANGED <<engine_vars, call, plugin_config, hooks, hook_out>>

\* the host resolves the path of a request: URLResolver.resolve is the
\* host's own function until the hooks are installed, patched_resolve after
Resolve(path) ==
    /\ hook_out' = IF hooks.wrappers["resolve"] = 0
                   THEN OriginalResolve(path)
                   ELSE PatchedResolve(path, plugin_config, enabled)
    /\ UNCHANGED <<engine_vars, call, plugin_config, enabled, hooks>>

(***************************************************************************)
(* Spec: one worker, every request of Requests, settings changing.         *)
(* SpecConc: NumWorkers workers at once, the requests of ConcRequests.     *)
(* SpecHist: one worker, with the history of each account's first success. *)
(* SpecFair: Spec, with every upstream GET answered in the end.            *)
(***************************************************************************)
\* no call of _get_programme_duration is followed
NotCalled == [state |-> "none"]

\* _get_programme_duration is called with the arguments of `call`
GetDuration ==
    /\ call.state = "called"
    /\ call' = [call EXCEPT !.state = "returned",
                            !.result = GetProgrammeDuration(call.channel, call.timestamp_str)]
    /\ UNCHANGED <<engine_vars, plugin_config, host_vars>>

\* the host as the engine meets it: the row enabled, the hooks installed once
\* at startup, no patched function called yet
HostReady ==
    /\ enabled = TRUE
    /\ hooks = AutoInstallHooks(NoHooks, 0)
    /\ hook_out = NoCall
    /\ call = NotCalled

Init ==
    /\ url_format_cache = [a \in AccountIds |-> Absent]
    /\ plugin_config \in PluginConfigs
    /\ req = [w \in Workers |-> Idle]
    /\ fallback_ok = {}
    /\ first_ok = [a \in {} |-> Absent]
    /\ relay = [w \in Workers |-> NoRelay]
    /\ HostReady

Next ==
    \/ \E rq \in Requests : Receive(1, rq)
    \/ \E answer \in Answers : PrimaryAnswer(1, answer)
    \/ \E answer \in Answers : FallbackAnswer(1, answer)
    \/ Finish(1)
    \/ \E config \in PluginConfigs : SaveSettings(config)
    \/ Restart

Spec == Init /\ [][Next]_vars

InitConc ==
    /\ url_format_cache = [a \in AccountIds |-> Absent]
    /\ plugin_config = NoRow
    /\ req = [w \in Workers |-> Idle]
    /\ fallback_ok = {}
    /\ first_ok = [a \in {} |-> Absent]
    /\ relay = [w \in Workers |-> NoRelay]
    /\ HostReady

NextConc ==
    \/ \E w \in Workers, rq \in ConcRequests : Receive(w, rq)
    \/ \E w \in Workers, answer \in ConcAnswers : PrimaryAnswer(w, answer)
    \/ \E w \in Workers, answer \in ConcAnswers : FallbackAnswer(w, answer)
    \/ \E w \in Workers : Finish(w)
    \/ Restart

SpecConc == InitConc /\ [][NextConc]_vars

\* the requests of the history specification: one user, one stream of each
\* Xtream-Codes account
HistRequests ==
    [username : {"alice"},
     password : {PwAlice},
     stream_id : {S155},
     timestamp : {T_Scenario},
     duration : {S22371, S22372},
     range : {NoRange}]

\* SpecHist: one worker, the requests of HistRequests, and the history of
\* every account's first success kept from the start of the process
InitHist ==
    /\ url_format_cache = [a \in AccountIds |-> Absent]
    /\ plugin_config = NoRow
    /\ req = [w \in Workers |-> Idle]
    /\ fallback_ok = {}
    /\ first_ok = [a \in AccountIds |-> Absent]
    /\ relay = [w \in Workers |-> NoRelay]
    /\ HostReady

NextHist ==
    \/ \E rq \in HistRequests : Receive(1, rq)
    \/ \E answer \in ConcAnswers : PrimaryAnswer(1, answer)
    \/ \E answer \in ConcAnswers : FallbackAnswer(1, answer)
    \/ Finish(1)
    \/ Restart

SpecHist == InitHist /\ [][NextHist]_vars

\* Spec, with every upstream GET answered in the end: requests.get is called
\* with timeout=10, so a provider that stays silent makes it raise Timeout
SpecFair ==
    /\ Spec
    /\ WF_vars(\E answer \in Answers : PrimaryAnswer(1, answer))
    /\ WF_vars(\E answer \in Answers : FallbackAnswer(1, answer))

\* the errors iter_content raises when the upstream breaks mid-body
ReadErrors == {"ChunkedEncodingError", "ConnectionError"}

\* SpecRelay: one worker, the requests of ConcRequests, and the body of every
\* 200 and 206 followed chunk by chunk to its end, to a read error, or to
\* the client going away
InitRelay ==
    /\ url_format_cache = [a \in AccountIds |-> Absent]
    /\ plugin_config = NoRow
    /\ req = [w \in Workers |-> Idle]
    /\ fallback_ok = {}
    /\ first_ok = [a \in {} |-> Absent]
    /\ relay = [w \in Workers |-> NoRelay]
    /\ HostReady

NextRelay ==
    \/ \E rq \in ConcRequests : Receive(1, rq)
    \/ \E answer \in ConcAnswers : PrimaryAnswer(1, answer)
    \/ \E answer \in ConcAnswers : FallbackAnswer(1, answer)
    \/ Chunk(1)
    \/ EndOfBody(1)
    \/ \E exception \in ReadErrors : ReadError(1, exception)
    \/ \E collected \in BOOLEAN : Disconnect(1, collected)
    \/ relay[1].body # "relaying" /\ Finish(1)

SpecRelay == InitRelay /\ [][NextRelay]_vars

W_alice == <<"a", "l", "i", "c", "e">>
W_live == <<"l", "i", "v", "e">>
W_api == <<"a", "p", "i">>
W_abc == <<"a", "b", "c">>
W_extra == <<"e", "x", "t", "r", "a">>
W_Scenario ==
    <<"2", "0", "2", "5", "-", "0", "1", "-", "1", "5", ":", "1", "4", "-", "3", "0">>
W_Spaced ==
    <<"2", "0", "2", "5", "-", "0", "1", "-", "1", "5", " ", "1", "4", ":", "3", "0">>

\* "/timeshift/alice/s3cret/155/2025-01-15:14-30/22371.ts"
CatchupPath ==
    Join(<< <<>>, W_timeshift, W_alice, PwAlice, S155, W_Scenario, S22371 \o W_ts>>, "/")

\* "/timeshift/alice/hunter2/155/2025-01-15:14-30/22372.ts"
CatchupPathDave ==
    Join(<< <<>>, W_timeshift, W_alice, PwDave, S155, W_Scenario, S22372 \o W_ts>>, "/")

\* the paths the host is asked to resolve: the catch-up path as the client
\* sends it, with a newline behind it and as a nested resolver is given it
\* (no leading slash), and its near misses
HostPaths ==
    {CatchupPath,
     CatchupPath \o <<"\n">>,
     Tail(CatchupPath),
     CatchupPathDave,
     <<"/">> \o CatchupPath,
     CatchupPath \o <<"/">> \o W_extra,
     Join(<< <<>>, W_api, W_timeshift, W_alice, PwAlice, S155, W_Scenario, S22371 \o W_ts>>, "/"),
     Join(<< <<>>, W_timeshift \o <<"x">>, W_alice, PwAlice, S155, W_Scenario, S22371 \o W_ts>>, "/"),
     Join(<< <<>>, W_timeshift, W_alice, <<>>, S155, W_Scenario, S22371 \o W_ts>>, "/"),
     Join(<< <<>>, W_timeshift, W_alice, PwAlice, W_abc, W_Scenario, S22371 \o W_ts>>, "/"),
     Join(<< <<>>, W_timeshift, W_alice, PwAlice, S155, W_Spaced, S22371 \o W_ts>>, "/"),
     Join(<< <<>>, W_timeshift, W_alice, PwAlice, S155, W_Scenario, S22371>>, "/"),
     Join(<< <<>>, W_timeshift, W_alice, PwAlice, S155, W_Scenario, W_abc \o W_ts>>, "/"),
     Join(<< <<>>, W_timeshift, W_alice, PwAlice, S155, W_Scenario, W_ts>>, "/"),
     Join(<< <<>>, W_live, W_alice, PwAlice, S22371 \o W_ts>>, "/")}

W_7 == <<"7">>

\* live requests: /live/{username}/{password}/{channel_id}
LiveRequests ==
    [username : {"alice", "dave", "carol", "ghost"},
     password : {PwAlice, PwDave},
     channel_id : {S22371 \o W_ts, S22371, S22372 \o W_ts, W_7 \o W_ts,
                   S404 \o W_ts, S700 \o W_ts, S99999 \o W_ts, W_abc \o W_ts}]

\* the PluginConfig rows of SpecHost: no row, and a row with empty settings
HostConfigs == {NoRow, Row({}, "")}

\* SpecHooks: the five patched entry points, called in any order while the
\* hooks are installed, the flag is toggled and the settings are saved
HookConfigs == {NoRow, Row({"language"}, ""), Row({"timezone"}, "UTC")}

\* what the host lists: nothing, one channel, and every channel with an
\* entry whose id no channel has
HostListings ==
    {<<>>, <<StreamData(404)>>,
     <<StreamData(404), StreamData(7), StreamData(22371), StreamData(5)>>}

EpgRequests ==
    [username : {"alice", "dave"},
     stream_id : {<<>>, S22371, S404, S501, W_7, S99999},
     short : BOOLEAN]

HookPaths == {CatchupPath, W_api}

HookLiveRequests ==
    [username : {"alice"}, password : {PwAlice, PwDave},
     channel_id : {S22371 \o W_ts, W_7}]


\* SpecHost: a worker process from the loading of the plugin: the hooks are
\* installed by _auto_install_hooks and by Plugin.run, the host toggles the
\* enabled flag and saves or deletes the row, and calls the patched functions
InitHost ==
    /\ url_format_cache = [a \in AccountIds |-> Absent]
    /\ plugin_config = Row({}, "")
    /\ req = [w \in Workers |-> Idle]
    /\ fallback_ok = {}
    /\ first_ok = [a \in {} |-> Absent]
    /\ relay = [w \in Workers |-> NoRelay]
    /\ enabled \in BOOLEAN
    /\ hooks = NoHooks
    /\ hook_out = NoCall
    /\ call = NotCalled

NextHost ==
    \/ AutoInstall(0)
    \/ \E action \in {"enable", "disable"} : PluginRun(action, 0)
    \/ \E flag \in BOOLEAN : SetEnabled(flag)
    \/ \E config \in HostConfigs : SaveSettings(config)
    \/ \E path \in HostPaths : Resolve(path)
    \/ \E rq \in LiveRequests : StreamXc(rq)

SpecHost == InitHost /\ [][NextHost]_vars

InitHooks == InitHost

NextHooks ==
    \/ AutoInstall(0)
    \/ \E action \in {"enable", "disable"} : PluginRun(action, 0)
    \/ \E flag \in BOOLEAN : SetEnabled(flag)
    \/ \E config \in HookConfigs : SaveSettings(config)
    \/ \E path \in HookPaths : Resolve(path)
    \/ \E rq \in HookLiveRequests : StreamXc(rq)
    \/ \E streams \in HostListings : XcGetLiveStreams(streams)
    \/ \E rq \in EpgRequests, host \in {"returns", "raises"}, has_config \in BOOLEAN :
          XcGetEpg(rq, host, has_config)
    \/ \E has_config \in BOOLEAN : GenerateEpg(has_config)

SpecHooks == InitHooks /\ [][NextHooks]_vars

\* SpecInstall: install_hooks where any one of its patch steps may raise,
\* and the two entry points that show what is patched
RaisesAt == 0..Len(PatchSteps)

InitInstall == InitHost

NextInstall ==
    \/ \E raises_at \in RaisesAt : AutoInstall(raises_at)
    \/ \E action \in {"enable", "disable"}, raises_at \in RaisesAt :
          PluginRun(action, raises_at)
    \/ \E flag \in BOOLEAN : SetEnabled(flag)
    \/ \E path \in HookPaths : Resolve(path)
    \/ \E rq \in HookLiveRequests : StreamXc(rq)

SpecInstall == InitInstall /\ [][NextInstall]_vars

\* programmes of every kind of length: twenty seconds, half a minute over an
\* hour and a half, just under and just over the cap, ten hours, none at
\* all, and one whose end lies before its start
SomeProgrammes ==
    {Programme("blip", <<2025, 1, 15, 15, 30>>, 0, 20),
     Programme("news", <<2025, 1, 15, 15, 0>>, 90, 30),
     Programme("gala", <<2025, 1, 15, 15, 0>>, 475, 0),
     Programme("opera", <<2025, 1, 15, 15, 0>>, 475, 1),
     Programme("night", <<2025, 1, 15, 14, 0>>, 600, 0),
     Programme("empty", <<2025, 1, 15, 15, 30>>, 0, 0),
     Programme("torn", <<2025, 1, 15, 16, 0>>, -90, 0)}

\* the schedules of at most MaxProgrammes of them, in every order
RECURSIVE Schedules(_)
Schedules(n) ==
    IF n = 0 THEN {<<>>}
    ELSE Schedules(n - 1) \cup
         {Append(s, p) : s \in {t \in Schedules(n - 1) : Len(t) = n - 1},
                         p \in SomeProgrammes}

\* channels without EPG and with each of the schedules
SomeChannels ==
    {[name |-> "c", user_level |-> 0, epg_data |-> None]} \cup
    {[name |-> "c", user_level |-> 0, epg_data |-> [programs |-> s]] :
        s \in Schedules(MaxProgrammes)}

\* SpecDuration: _get_programme_duration called once, with a channel of
\* SomeChannels and a local timestamp that parses or not
InitDuration ==
    /\ url_format_cache = [a \in AccountIds |-> Absent]
    /\ plugin_config = NoRow
    /\ req = [w \in Workers |-> Idle]
    /\ fallback_ok = {}
    /\ first_ok = [a \in {} |-> Absent]
    /\ relay = [w \in Workers |-> NoRelay]
    /\ enabled = TRUE
    /\ hooks = AutoInstallHooks(NoHooks, 0)
    /\ hook_out = NoCall
    /\ call \in [state : {"called"},
                 channel : SomeChannels,
                 timestamp_str : {<<2025, 1, 15, 15, 30>>, <<2025, 1, 15, 16, 0>>, T_Feb30},
                 result : {0}]

NextDuration == GetDuration

SpecDuration == InitDuration /\ [][NextDuration]_vars

(***************************************************************************)
(* Claims                                                                  *)
(***************************************************************************)
Busy == {w \in Workers : req[w].pc # "idle"}

\* the slot's request got as far as the temporal planner and _proxy_stream
Planned(slot) == "local_timestamp" \in DOMAIN slot.frame

\* the n-th upstream answer of the slot was a response with one of `statuses`
Answered(slot, n, statuses) ==
    /\ Len(slot.answers) >= n
    /\ slot.answers[n].kind = "response"
    /\ slot.answers[n].status_code \in statuses

C3_WriteOnlyOnFallbackSuccess ==
    /\ [](\A w \in Busy :
            /\ req[w].writes <= 1
            /\ req[w].writes = 1 =>
                  /\ Answered(req[w], 1, {400})
                  /\ Answered(req[w], 2, {200, 206}))
    /\ [][url_format_cache' # url_format_cache =>
            \/ url_format_cache' = [a \in AccountIds |-> Absent]
            \/ \E w \in Workers :
                  /\ req[w].pc = "fallback"
                  /\ req'[w].pc = "done"
                  /\ req[w].writes = 0
                  /\ req'[w].writes = 1
                  /\ Answered(req'[w], 1, {400})
                  /\ Answered(req'[w], 2, {200, 206})
                  /\ url_format_cache' =
                        [url_format_cache EXCEPT ![req[w].frame.m3u_account_id] = "B"]]_vars

C3_Witness ==
    \E w \in Busy : req[w].writes = 1 /\ url_format_cache[req[w].frame.m3u_account_id] = "B"

\* the user row of a request's username has a non-empty xc_password equal to
\* the request's secret
SecretMatches(rq) ==
    /\ rq.username \in UserNames
    /\ LET xc_password == UserTable[rq.username].custom_properties.xc_password
       IN  /\ xc_password.t = "str"
           /\ xc_password.v # <<>>
           /\ xc_password.v = rq.password

\* C4: for every (username, secret), _authenticate_user returns the user iff a
\* user row with that username exists, has a non-empty xc_password, and that
\* xc_password equals the secret; every other request is answered 403.
C4_AuthenticationIff ==
    \A w \in Busy :
        LET slot == req[w] IN
        /\ SecretMatches(slot.request) <=> slot.frame.user # None
        /\ slot.frame.user # None => slot.frame.user = UserTable[slot.request.username]
        /\ ~SecretMatches(slot.request) =>
              /\ slot.pc = "done"
              /\ slot.response = HttpResponseForbidden("Invalid credentials")

\* an existing user with a configured secret sends another user's secret
C4_Witness ==
    \E w \in Busy :
        /\ req[w].request.username = "alice"
        /\ req[w].request.password = PwDave
        /\ req[w].response.status = 403

\* the responses timeshift_proxy gives before it calls _proxy_stream
Rejections ==
    {HttpResponseForbidden("Invalid credentials"),
     Http404("Channel not found"),
     HttpResponseForbidden("Access denied"),
     HttpResponseBadRequest("Timeshift not supported for this channel"),
     HttpResponseBadRequest("Channel not from Xtream Codes provider")}

\* C5: a request rejected before the relay step (403 credentials, 404 not
\* found, 403 access level, 400 no archive, 400 not Xtream-Codes) issues no
\* upstream GET and leaves _url_format_cache unchanged.
C5_RejectedTouchesNothing ==
    /\ [](\A w \in Busy :
            req[w].response \in Rejections =>
                /\ req[w].gets = <<>>
                /\ req[w].answers = <<>>
                /\ req[w].writes = 0)
    /\ [][\A w \in Workers :
            (req[w].pc = "idle" /\ req'[w].pc = "done") =>
                /\ req'[w].response \in Rejections
                /\ req'[w].gets = <<>>
                /\ url_format_cache' = url_format_cache]_vars

\* a request is rejected while the cache holds a preference
C5_Witness ==
    \E w \in Busy :
        /\ req[w].response = HttpResponseBadRequest("Timeshift not supported for this channel")
        /\ url_format_cache[1] = "B"

\* the values a client may put in the third path field
ThirdFields == {rq.stream_id : rq \in Requests}

\* C6: two requests that differ only in the third path field resolve to the
\* same user, channel and stream and build the same primary and fallback URLs
\* (the handler's whole outcome is the same); the fifth field is the provider
\* stream id that is looked up and put in the URLs.
C6_ThirdFieldIgnored ==
    /\ [](\A w \in Busy :
            LET slot == req[w] IN
            /\ slot.frame.stream # None =>
                  slot.frame.stream.custom_properties.stream_id = JStr(slot.request.duration)
            /\ Planned(slot) =>
                  \A n \in 1..Len(slot.gets) :
                      slot.gets[n].url.stream = slot.request.duration)
    /\ [][\A w \in Workers :
            (req[w].pc = "idle" /\ req'[w].pc # "idle") =>
                \A third \in ThirdFields :
                    TimeshiftProxy([req'[w].request EXCEPT !.stream_id = third],
                                   url_format_cache, plugin_config)
                        = [req'[w] EXCEPT !.request.stream_id = third]]_vars

\* the third field names another stream of the provider, the fifth is used
C6_Witness ==
    \E w \in Busy :
        /\ req[w].request.stream_id = S22372
        /\ req[w].request.duration = S22371
        /\ req[w].pc = "primary"
        /\ req[w].gets[1].url.stream = S22371

\* the rows of the stream table, by position, whose stored stream_id is the
\* string provider_stream_id and whose account is of kind XC
MatchingRows(provider_stream_id) ==
    {i \in 1..Len(StreamTable) :
        /\ StreamTable[i].custom_properties.stream_id.t = "str"
        /\ StreamTable[i].custom_properties.stream_id.v = provider_stream_id
        /\ AccountTable[StreamTable[i].m3u_account].account_type = "XC"}

FirstRow(rows) == CHOOSE i \in rows : \A j \in rows : i <= j

\* C7: the lookup yields a (channel, stream) pair only for a stream whose
\* stored stream_id is the string form of the requested id and whose account
\* is of kind XC; when no such stream exists, or the first such stream has no
\* channel, an authenticated request is answered 404.
C7_IdentityLookup ==
    \A w \in Busy :
        LET slot == req[w]
            rows == MatchingRows(slot.request.duration)
        IN  slot.frame.user # None =>
                /\ slot.frame.stream # None =>
                      /\ rows # {}
                      /\ slot.frame.stream = StreamTable[FirstRow(rows)]
                      /\ slot.frame.channel = ChannelTable[slot.frame.stream.channels[1]]
                /\ (rows = {} \/ StreamTable[FirstRow(rows)].channels = <<>>) =>
                      /\ slot.pc = "done"
                      /\ slot.response = Http404("Channel not found")

\* the first matching stream has no channel (a later one has): 404
C7_Witness ==
    \E w \in Busy :
        /\ req[w].frame.user # None
        /\ req[w].request.duration = S404
        /\ req[w].response.status = 404

\* C8: an authenticated request for a resolved channel is answered 403
\* "Access denied" iff the user's level is lower than the channel's; no
\* upstream GET is ever issued for a channel whose level exceeds the user's.
C8_AccessLevel ==
    \A w \in Busy :
        LET slot == req[w] IN
        (slot.frame.user # None /\ slot.frame.channel # None) =>
            LET user_level == UserTable[slot.request.username].user_level
                channel_level == slot.frame.channel.user_level
            IN  /\ (slot.response = HttpResponseForbidden("Access denied"))
                      <=> user_level < channel_level
                /\ slot.gets # <<>> => channel_level <= user_level

\* a user of level 1 asks for a channel of level 10
C8_Witness ==
    \E w \in Busy :
        /\ req[w].request.username = "dave"
        /\ req[w].frame.channel = ChannelTable["c2"]
        /\ req[w].response = HttpResponseForbidden("Access denied")

\* the request passed authentication, lookup and the access check
PassedAccess(slot) ==
    /\ slot.frame.user # None
    /\ slot.frame.channel # None
    /\ slot.frame.user.user_level >= slot.frame.channel.user_level

IsXc(stream) == AccountTable[stream.m3u_account].account_type = "XC"

\* C9 as claimed: past the access check, 400 if tv_archive is not truthy or the
\* account is not XC, and on to the temporal planner for every stream whose
\* tv_archive is truthy and whose account is XC.
C9_TruthyArchiveProceeds ==
    \A w \in Busy :
        LET slot == req[w] IN
        PassedAccess(slot) =>
            LET tv_archive == slot.frame.stream.custom_properties.tv_archive IN
            /\ (~Truthy(tv_archive) \/ ~IsXc(slot.frame.stream)) =>
                  (slot.pc = "done" /\ slot.response.status = 400 /\ slot.gets = <<>>)
            /\ (Truthy(tv_archive) /\ IsXc(slot.frame.stream)) => Planned(slot)

\* tv_archive == 1 or tv_archive == '1', as Python compares them
IsOne(j) == j.v = <<"1">> /\ j.t \in {"int", "str", "bool"}

\* C9 amended: past the access check, 400 if tv_archive is not equal to 1 or
\* '1' (absent, 0, '0' or any other value) or the account is not XC, and on to
\* the temporal planner for every stream whose tv_archive equals 1 or '1' and
\* whose account is XC.
C9_ArchiveIsOneProceeds ==
    \A w \in Busy :
        LET slot == req[w] IN
        PassedAccess(slot) =>
            LET tv_archive == slot.frame.stream.custom_properties.tv_archive IN
            /\ (~IsOne(tv_archive) \/ ~IsXc(slot.frame.stream)) =>
                  (slot.pc = "done" /\ slot.response.status = 400 /\ slot.gets = <<>>)
            /\ (IsOne(tv_archive) /\ IsXc(slot.frame.stream)) => Planned(slot)

\* a stream whose tv_archive is the string '0' is refused
C9_Witness ==
    \E w \in Busy :
        /\ PassedAccess(req[w])
        /\ req[w].frame.stream.custom_properties.tv_archive = JStr(<<"0">>)
        /\ req[w].response = HttpResponseBadRequest("Timeshift not supported for this channel")

\* strptime or ZoneInfo raises for the slot's timestamp and configured zone
ConversionFails(slot) ==
    ~Parses(slot.request.timestamp) \/ slot.frame.timezone_str \notin KnownZones

\* C10 as claimed: when parsing the start timestamp or looking up the zone
\* fails, the request is not continued with the unconverted timestamp and no
\* upstream URL is built from it.
C10_ConversionFailsLoudly ==
    \A w \in Busy :
        LET slot == req[w] IN
        (Planned(slot) /\ ConversionFails(slot)) =>
            /\ slot.frame.local_timestamp # slot.request.timestamp
            /\ slot.gets = <<>>

\* C10 amended: when parsing the start timestamp or looking up the zone fails,
\* the conversion does not fail to its caller: it returns the timestamp it was
\* given, and the request goes on to _proxy_stream with that value.
C10_ConversionFallsBack ==
    \A w \in Busy :
        LET slot == req[w] IN
        /\ (PassedAccess(slot)
              /\ IsOne(slot.frame.stream.custom_properties.tv_archive)
              /\ ~Parses(slot.request.timestamp)) => Planned(slot)
        /\ (Planned(slot) /\ ConversionFails(slot)) =>
              /\ slot.frame.local_timestamp = slot.request.timestamp
              /\ slot.gets # <<>>

\* a timestamp that does not parse, and one whose zone is unknown
C10_Witness ==
    \E w \in Busy :
        /\ Planned(req[w])
        /\ req[w].request.timestamp = T_Feb30
        /\ req[w].frame.timezone_str = "Mars/Phobos"
        /\ req[w].gets # <<>>

\* the request passed every check of timeshift_proxy before the temporal planner
PassedChecks(rq) ==
    LET user == AuthenticateUser(rq.username, rq.password)
        found == FindChannelByProviderStreamId(ProviderStreamId(rq))
    IN  /\ user # None
        /\ found.channel # None
        /\ ~AccessDenied(user, found.channel)
        /\ ArchiveEnabled(found.stream.custom_properties)
        /\ IsXc(found.stream)

\* C11: when the conversion fails (the timestamp does not parse, or the zone is
\* unknown), the request is not aborted: it reaches _proxy_stream, and the
\* primary URL, the fallback URL and every upstream GET carry the request's
\* timestamp, character for character, as their start.
C11_UnconvertedTimestampRelayed ==
    /\ [](\A w \in Busy :
            LET slot == req[w] IN
            (Planned(slot) /\ ConversionFails(slot)) =>
                /\ slot.response \notin Rejections
                /\ slot.frame.timeshift_url.start = slot.request.timestamp
                /\ slot.frame.fallback_url # None =>
                      slot.frame.fallback_url.start = slot.request.timestamp
                /\ Len(slot.gets) >= 1
                /\ \A n \in 1..Len(slot.gets) :
                      slot.gets[n].url.start = slot.request.timestamp)
    /\ [][\A w \in Workers :
            (/\ req[w].pc = "idle"
             /\ req'[w].pc # "idle"
             /\ PassedChecks(req'[w].request)
             /\ \/ ~Parses(req'[w].request.timestamp)
                \/ GetPluginTimezone(plugin_config) \notin KnownZones)
            => /\ req'[w].pc = "primary"
               /\ req'[w].gets[1].url.start = req'[w].request.timestamp]_vars

\* a parseable timestamp under an unknown zone went out unconverted, in the
\* fallback GET too
C11_Witness ==
    \E w \in Busy :
        /\ Planned(req[w])
        /\ req[w].request.timestamp = T_NewYear
        /\ req[w].frame.timezone_str = "Mars/Phobos"
        /\ Len(req[w].gets) = 2
        /\ req[w].gets[2].url.start = T_NewYear

\* the schedule entries of the slot's channel that cover its local timestamp
\* (start <= local timestamp < end), in the schedule's order
CoveringEntries(slot) ==
    IF ~Parses(slot.frame.local_timestamp) \/ slot.frame.channel.epg_data = None
    THEN <<>>
    ELSE LET dt == Strptime(slot.frame.local_timestamp) * 60
         IN  SelectSeq(slot.frame.channel.epg_data.programs,
                       LAMBDA p : p.start_time <= dt /\ p.end_time > dt)

\* seconds, rounded up to whole minutes
CeilMinutes(seconds) == (seconds + 59) \div 60

\* C12: when a schedule entry covers the local timestamp, the duration put in
\* the upstream URLs is min(ceil((end - start) in minutes) + 5, 480), for
\* entries of every length, a whole number of minutes or not.
C12_DurationIsCeilPlusBuffer ==
    \A w \in Busy :
        LET slot == req[w] IN
        (Planned(slot) /\ CoveringEntries(slot) # <<>>) =>
            LET entry == CoveringEntries(slot)[1]
                expected == Min(CeilMinutes(entry.end_time - entry.start_time)
                                    + BUFFER_MINUTES, MAX_DURATION)
            IN  /\ slot.frame.duration_minutes = expected
                /\ \A n \in 1..Len(slot.gets) : slot.gets[n].url.duration = expected

\* the duration lookup has no entry to take a length from: no schedule, a local
\* timestamp strptime rejects, or no entry covering it
NoEntryFor(channel, local_timestamp) ==
    \/ channel.epg_data = None
    \/ ~Parses(local_timestamp)
    \/ LET dt == Strptime(local_timestamp) * 60
       IN  \A n \in 1..Len(channel.epg_data.programs) :
              LET p == channel.epg_data.programs[n]
              IN  ~(p.start_time <= dt /\ p.end_time > dt)

\* C13: the duration is exactly 120 minutes whenever the channel has no
\* schedule, the local timestamp does not parse, or no entry covers it; the
\* request is not aborted for it: it goes on to _proxy_stream and 120 is the
\* duration of every upstream URL.
C13_DefaultDuration ==
    /\ [](\A w \in Busy :
            LET slot == req[w] IN
            (Planned(slot) /\ NoEntryFor(slot.frame.channel, slot.frame.local_timestamp)) =>
                /\ slot.frame.duration_minutes = 120
                /\ slot.response \notin Rejections
                /\ Len(slot.gets) >= 1
                /\ \A n \in 1..Len(slot.gets) : slot.gets[n].url.duration = 120)
    /\ [][\A w \in Workers :
            (/\ req[w].pc = "idle"
             /\ req'[w].pc # "idle"
             /\ PassedChecks(req'[w].request)
             /\ NoEntryFor(FindChannelByProviderStreamId(ProviderStreamId(req'[w].request)).channel,
                           ConvertTimestampToLocal(req'[w].request.timestamp,
                                                   GetPluginTimezone(plugin_config))))
            => /\ req'[w].pc = "primary"
               /\ req'[w].gets[1].url.duration = 120]_vars

\* a channel with a schedule, asked at a local time no entry covers, relayed
C13_Witness ==
    \E w \in Busy :
        /\ Planned(req[w])
        /\ req[w].pc = "done"
        /\ req[w].frame.channel = ChannelTable["c1"]
        /\ Parses(req[w].frame.local_timestamp)
        /\ CoveringEntries(req[w]) = <<>>
        /\ req[w].frame.duration_minutes = 120
        /\ req[w].response.status = 200

\* the last upstream answer the slot received
LastAnswer(slot) == slot.answers[Len(slot.answers)]

\* C14: when an upstream GET (primary or fallback) times out, the client gets
\* 400 "Provider timeout" and no further GET is issued - a timed-out primary is
\* not followed by the fallback - and _url_format_cache is left as it was.
C14_TimeoutNoFallback ==
    /\ [](\A w \in Busy :
            LET slot == req[w] IN
            (slot.answers # <<>> /\ LastAnswer(slot).kind = "Timeout") =>
                /\ slot.pc = "done"
                /\ slot.response = HttpResponseBadRequest("Provider timeout")
                /\ Len(slot.gets) = Len(slot.answers)
                /\ slot.writes = 0
                /\ slot.answers[1].kind = "Timeout" => Len(slot.gets) = 1)
    /\ [][\A w \in Workers :
            (/\ req[w].pc \in {"primary", "fallback"}
             /\ req'[w].pc # "idle"
             /\ Len(req'[w].answers) = Len(req[w].answers) + 1
             /\ LastAnswer(req'[w]).kind = "Timeout")
            => /\ url_format_cache' = url_format_cache
               /\ req'[w].gets = req[w].gets]_vars

\* the primary GET timed out while a fallback URL was at hand
C14_Witness ==
    \E w \in Busy :
        /\ req[w].answers = <<Raised("Timeout")>>
        /\ req[w].frame.fallback_url # None
        /\ req[w].response = HttpResponseBadRequest("Provider timeout")

\* C15: when the final upstream response (the primary's when no fallback GET
\* was issued, else the fallback's) has a status other than 200 and 206, the
\* client gets a 400 "Provider error" carrying that response's status; after
\* two rejected attempts it is the second attempt's status.
C15_FinalStatusReported ==
    \A w \in Busy :
        LET slot == req[w] IN
        (/\ slot.answers # <<>>
         /\ Len(slot.answers) = Len(slot.gets)
         /\ LastAnswer(slot).kind = "response"
         /\ LastAnswer(slot).status_code \notin {200, 206}) =>
            /\ slot.pc = "done"
            /\ slot.response =
                  HttpResponse(400, "Provider error", LastAnswer(slot).status_code, None)
            /\ Len(slot.answers) = 2 => slot.response.code = slot.answers[2].status_code

\* Dialect A rejected with 400, then Dialect B with 404: 404 is reported
C15_Witness ==
    \E w \in Busy :
        /\ req[w].answers = <<StatusAnswer(400), StatusAnswer(404)>>
        /\ req[w].gets[2].url.format = "B"
        /\ req[w].response = HttpResponse(400, "Provider error", 404, None)

\* the slot's upstream exchange is over and ended in a response with `status`
Final(slot, status) ==
    /\ slot.pc = "done"
    /\ slot.answers # <<>>
    /\ LastAnswer(slot).kind = "response"
    /\ LastAnswer(slot).status_code = status

\* the status and Content-Range a relayed response must show to the client
RelaysStatus(slot) ==
    /\ Final(slot, 206) =>
          /\ slot.response.status = 206
          /\ slot.response.headers.Content_Range = LastAnswer(slot).headers.Content_Range
    /\ Final(slot, 200) => slot.response.status = 200

\* C16 as claimed: if the inbound request carries a Range header, every
\* upstream GET (primary and fallback) carries an identical one, and if it
\* carries none, no upstream GET carries one; an upstream 206 gives the client
\* a 206 with the upstream Content-Range, an upstream 200 a 200.
C16_RangeForwarded ==
    \A w \in Busy :
        LET slot == req[w] IN
        Planned(slot) =>
            /\ slot.request.range # NoRange =>
                  \A n \in 1..Len(slot.gets) : slot.gets[n].headers.Range = slot.request.range
            /\ slot.request.range = NoRange =>
                  \A n \in 1..Len(slot.gets) : slot.gets[n].headers.Range = JNull
            /\ RelaysStatus(slot)

\* C16 amended: if the inbound request carries a Range header with a non-empty
\* value, every upstream GET (primary and fallback) carries an identical one;
\* if it carries none, or one with an empty value, no upstream GET carries
\* one; an upstream 206 gives the client a 206 with the upstream
\* Content-Range, an upstream 200 a 200.
C16_NonEmptyRangeForwarded ==
    \A w \in Busy :
        LET slot == req[w] IN
        Planned(slot) =>
            /\ slot.request.range \notin {NoRange, EmptyRange} =>
                  \A n \in 1..Len(slot.gets) : slot.gets[n].headers.Range = slot.request.range
            /\ slot.request.range \in {NoRange, EmptyRange} =>
                  \A n \in 1..Len(slot.gets) : slot.gets[n].headers.Range = JNull
            /\ RelaysStatus(slot)

\* a seek: the Range went out in both GETs, the 206 and its Content-Range came
\* back to the client
C16_Witness ==
    \E w \in Busy :
        /\ Planned(req[w])
        /\ req[w].request.range = SomeRange
        /\ Len(req[w].gets) = 2
        /\ req[w].gets[2].headers.Range = SomeRange
        /\ Final(req[w], 206)
        /\ req[w].response.headers.Content_Range = "bytes 100-999/1000"

\* C17: on a successful relay (final upstream status 200 or 206) each of
\* Content-Length, Content-Range and Accept-Ranges is in the client's response
\* with the upstream value if the upstream response has it, and absent if not;
\* Content-Type is the upstream's when it has one and 'video/mp2t' otherwise.
C17_HeadersCopied ==
    \A w \in Busy :
        LET slot == req[w] IN
        (Final(slot, 200) \/ Final(slot, 206)) =>
            LET upstream == LastAnswer(slot).headers
                client == slot.response.headers
            IN  /\ client.Content_Length = upstream.Content_Length
                /\ client.Content_Range = upstream.Content_Range
                /\ client.Accept_Ranges = upstream.Accept_Ranges
                /\ upstream.Content_Type # Absent =>
                      client.Content_Type = upstream.Content_Type
                /\ upstream.Content_Type = Absent =>
                      client.Content_Type = "video/mp2t"

\* an upstream response with a length and a range but no type and no
\* Accept-Ranges, relayed
C17_Witness ==
    \E w \in Busy :
        /\ Final(req[w], 206)
        /\ LastAnswer(req[w]).headers = ByteRange
        /\ req[w].response.headers.Content_Type = "video/mp2t"
        /\ req[w].response.headers.Content_Length = "900"
        /\ req[w].response.headers.Accept_Ranges = Absent

\* the slot waits for the provider's answer to a GET
Waiting(slot) == slot.pc \in {"primary", "fallback"}

\* C18: a request issues at most two upstream GETs, Dialect A then Dialect B,
\* to two different URLs; at most one, in Dialect B, when the cache holds 'B'
\* for the account at the time the preference is read; and once a GET is out
\* the request reaches its final response after at most those attempts (the
\* only other way out of waiting is the restart of the process).
C18_AtMostTwoAttempts ==
    /\ [](\A w \in Busy :
            LET slot == req[w] IN
            /\ Len(slot.gets) <= 2
            /\ Len(slot.answers) <= Len(slot.gets)
            /\ slot.pc = "done" => Len(slot.answers) = Len(slot.gets)
            /\ Len(slot.gets) = 2 =>
                  /\ slot.gets[1].url.format = "A"
                  /\ slot.gets[2].url.format = "B"
                  /\ slot.gets[1].url # slot.gets[2].url
            /\ (Planned(slot) /\ slot.frame.preferred_format = "B") =>
                  /\ Len(slot.gets) = 1
                  /\ slot.gets[1].url.format = "B")
    /\ [][\A w \in Workers :
            /\ (req[w].pc = "idle" /\ req'[w].pc # "idle" /\ Planned(req'[w])) =>
                  (req'[w].frame.preferred_format = "B"
                      <=> url_format_cache[req'[w].frame.m3u_account_id] = "B")
            /\ (Waiting(req[w]) /\ req'[w].pc = "idle") =>
                  url_format_cache' = [a \in AccountIds |-> Absent]]_vars
    /\ Waiting(req[1]) ~> (req[1].pc = "done" \/ req[1].pc = "idle")

\* both dialects were tried, and the request has its final response
C18_Witness ==
    \E w \in Busy :
        /\ req[w].pc = "done"
        /\ Len(req[w].gets) = 2
        /\ Len(req[w].answers) = 2
        /\ req[w].response.status = 400

\* the slot's request handled with no other request around: timeshift_proxy on
\* a cache that holds for its account what the slot read, then the slot's own
\* provider answers, in order
RunAlone(slot) ==
    LET read == [a \in AccountIds |->
                    IF a = slot.frame.m3u_account_id /\ slot.frame.preferred_format = "B"
                    THEN "B" ELSE Absent]
        asked == TimeshiftProxy(slot.request, read, plugin_config)
        first == IF Len(slot.answers) >= 1 THEN OnPrimary(asked, slot.answers[1]) ELSE asked
    IN  IF Len(slot.answers) >= 2 THEN OnFallback(first, slot.answers[2]) ELSE first

\* the slot read "no preference" for its account, and 'B' is stored by now
Stale(slot) ==
    /\ Planned(slot)
    /\ slot.frame.preferred_format = "A"
    /\ url_format_cache[slot.frame.m3u_account_id] = "B"

C20_FirstSuccessRemembered ==
    [][\A w \in Workers :
          (/\ req[w].pc = "idle"
           /\ req'[w].pc # "idle"
           /\ Planned(req'[w])
           /\ first_ok[req'[w].frame.m3u_account_id] # Absent)
          => req'[w].frame.timeshift_url.format
                = first_ok[req'[w].frame.m3u_account_id]]_vars

\* C21: every failure is converted to an HTTP response at the boundary of
\* the proxy: no exception leaves timeshift_proxy or the generator of the
\* body it returned, and every finished request has a response.
C21_NoUnhandledFault ==
    \A w \in Workers :
        /\ relay[w].raised = "none"
        /\ req[w].pc = "done" => req[w].response # None

\* the hooks are in place and the persisted flag is on
Intercepting == hooks.wrappers["resolve"] > 0 /\ plugin_config.exists /\ enabled

\* the paths of HostPaths that the catch-up pattern matches, and the fields it
\* captures from each
MatchingPaths ==
    {CatchupPath, CatchupPath \o <<"\n">>, Tail(CatchupPath), CatchupPathDave}

CapturedFields(path) ==
    IF path = CatchupPathDave
    THEN [username |-> W_alice, password |-> PwDave, stream_id |-> S155,
          timestamp |-> W_Scenario, duration |-> S22372]
    ELSE [username |-> W_alice, password |-> PwAlice, stream_id |-> S155,
          timestamp |-> W_Scenario, duration |-> S22371]

\* C22: with the plugin enabled, a path that matches the catch-up pattern is
\* resolved to timeshift_proxy with the fields the pattern captured, without
\* the host's resolver being asked; a path that does not match is given
\* unchanged to the host's original resolver, whose result is returned.
C22_MatchIntercepted ==
    [][\A path \in HostPaths :
          (Intercepting /\ Resolve(path)) =>
              IF path \in MatchingPaths
              THEN hook_out' = [hook |-> "resolve", func |-> "timeshift_proxy",
                                kwargs |-> CapturedFields(path), route |-> path]
              ELSE hook_out' = [hook |-> "resolve", func |-> "host",
                                kwargs |-> None, route |-> path]]_vars

\* the catch-up path was resolved to timeshift_proxy, with its five fields
C22_Witness ==
    /\ Intercepting
    /\ hook_out.hook = "resolve"
    /\ hook_out.func = "timeshift_proxy"
    /\ hook_out.route = CatchupPath
    /\ hook_out.kwargs = [username |-> W_alice, password |-> PwAlice,
                          stream_id |-> S155, timestamp |-> W_Scenario,
                          duration |-> S22371]

\* C23: the enabled flag is read at every request: a catch-up path is
\* intercepted exactly when the persisted flag is true at that moment,
\* whatever toggles came before, and a row that cannot be read counts as
\* disabled.
C23_FlagReadPerRequest ==
    [][\A path \in HostPaths :
          (hooks.wrappers["resolve"] > 0 /\ Resolve(path)) =>
              /\ (path \in MatchingPaths /\ plugin_config.exists /\ enabled)
                    <=> hook_out'.func = "timeshift_proxy"
              /\ ~plugin_config.exists => hook_out'.func = "host"]_vars

\* a catch-up path was intercepted and the flag was switched off afterwards
C23_Witness ==
    /\ hooks.wrappers["resolve"] > 0
    /\ hook_out.hook = "resolve"
    /\ hook_out.func = "timeshift_proxy"
    /\ ~enabled

\* C24: when the client goes away while the body is relayed, the relay stops
\* reading and the upstream connection is released: in every terminal state
\* of a request (success, error status, exception, client gone) no upstream
\* connection that the request opened is still open.
C24_NothingLeftOpen ==
    \A w \in Workers :
        (req[w].pc = "done" /\ relay[w].body # "relaying") => relay[w].open = {}

\* the local wall-clock time of each parseable timestamp of Requests in each
\* known zone: Brussels is UTC+1 in winter and UTC+2 in summer, Kolkata is
\* UTC+5:30
LocalTime(timestamp, zone) ==
    CASE zone = "UTC" -> timestamp
      [] zone = "Europe/Brussels" /\ timestamp = T_Scenario -> <<2025, 1, 15, 15, 30>>
      [] zone = "Europe/Brussels" /\ timestamp = T_NewYear  -> <<2026, 1, 1, 0, 30>>
      [] zone = "Europe/Brussels" /\ timestamp = T_Summer   -> <<2025, 8, 1, 0, 45>>
      [] zone = "Asia/Kolkata" /\ timestamp = T_Scenario    -> <<2025, 1, 15, 20, 0>>
      [] zone = "Asia/Kolkata" /\ timestamp = T_NewYear     -> <<2026, 1, 1, 5, 0>>
      [] zone = "Asia/Kolkata" /\ timestamp = T_Summer      -> <<2025, 8, 1, 4, 15>>

C26_WrappedOnce ==
    \A f \in HostFunctions :
        hooks.wrappers[f] > 0 =>
            /\ hooks.wrappers[f] = 1
            /\ hooks.original[f] = 0

\* the id a live request asks for, without its extension, and the channel of
\* the first Xtream-Codes stream that has it as its provider stream_id
RequestedId(out) ==
    LET s == out.request.channel_id
    IN  IF Len(s) > 3 /\ SubSeq(s, Len(s) - 2, Len(s)) = W_ts
        THEN SubSeq(s, 1, Len(s) - 3) ELSE s

ProviderMatch(out) == FindChannelByProviderStreamId(RequestedId(out)).channel

\* C27: with the plugin enabled, patched stream_xc looks the requested id up
\* first as a provider stream_id among the Xtream-Codes streams and makes
\* the internal-id lookup only when that gave no channel; the channel of the
\* provider-id match is the one served, also when the same number is the
\* internal id of another channel.
C27_ProviderIdFirst ==
    (hook_out.hook = "stream_xc" /\ hook_out.via = "patched"
        /\ hook_out.lookups # <<>>) =>
        /\ hook_out.lookups[1] = "provider"
        /\ (Len(hook_out.lookups) > 1) <=> (ProviderMatch(hook_out) = None)
        /\ ProviderMatch(hook_out) # None =>
              /\ hook_out.found = ProviderMatch(hook_out).name
              /\ hook_out.served \in {"", hook_out.found}
              /\ hook_out.status = 200 => hook_out.served = hook_out.found

\* 22371 is the provider stream_id of a stream of channel c1 and the
\* internal id of channel c3: alice was served c1
C27_Witness ==
    /\ hook_out.hook = "stream_xc"
    /\ hook_out.via = "patched"
    /\ hook_out.request.username = "alice"
    /\ RequestedId(hook_out) = S22371
    /\ ChannelIds["c3"] = 22371
    /\ hook_out.status = 200
    /\ hook_out.served = "c1"

\* the response of the first check that fails for the request, in the order
\* authentication, identity lookup, access level, archive capability,
\* account kind; None when every check passes
FirstFailure(rq) ==
    LET rows == MatchingRows(rq.duration) IN
    IF ~SecretMatches(rq)
    THEN [status |-> 403, text |-> "Invalid credentials"]
    ELSE IF rows = {} \/ StreamTable[FirstRow(rows)].channels = <<>>
    THEN [status |-> 404, text |-> "Channel not found"]
    ELSE LET stream == StreamTable[FirstRow(rows)]
             channel == ChannelTable[stream.channels[1]]
         IN  IF UserTable[rq.username].user_level < channel.user_level
             THEN [status |-> 403, text |-> "Access denied"]
             ELSE IF ~IsOne(stream.custom_properties.tv_archive)
             THEN [status |-> 400, text |-> "Timeshift not supported for this channel"]
             ELSE IF ~IsXc(stream)
             THEN [status |-> 400, text |-> "Channel not from Xtream Codes provider"]
             ELSE None

\* C28: timeshift_proxy applies its checks in the order authentication,
\* identity lookup, access level, archive capability, account kind, and the
\* first check that fails alone determines the response; a request that
\* fails none of them goes on to the planner.
C28_FirstFailingCheckDecides ==
    \A w \in Busy :
        LET slot == req[w]
            failure == FirstFailure(slot.request)
        IN  IF failure = None
            THEN Planned(slot) /\ slot.response \notin Rejections
            ELSE /\ slot.pc = "done"
                 /\ slot.gets = <<>>
                 /\ slot.response.status = failure.status
                 /\ slot.response.text = failure.text

\* dave (level 1) asked for the stream of channel c2 (level 10) whose
\* tv_archive is '0': 403 Access denied, not 400
C28_Witness ==
    \E w \in Busy :
        /\ req[w].request.username = "dave"
        /\ req[w].request.password = PwDave
        /\ req[w].request.duration = S500
        /\ ~IsOne(req[w].frame.stream.custom_properties.tv_archive)
        /\ req[w].response = HttpResponseForbidden("Access denied")

\* C29: when the fallback is attempted, the primary response is closed before
\* the fallback GET is issued: while the fallback GET is outstanding and
\* after it the response to the primary GET is not open, and a request
\* never holds two upstream responses open at once.
C29_PrimaryClosedBeforeFallback ==
    \A w \in Busy :
        /\ Cardinality(relay[w].open) <= 1
        /\ Len(req[w].gets) = 2 => 1 \notin relay[w].open

\* the fallback GET was answered 206 and its response is the only one open
C29_Witness ==
    \E w \in Busy :
        /\ Len(req[w].gets) = 2
        /\ Answered(req[w], 1, {400})
        /\ Answered(req[w], 2, {206})
        /\ relay[w].open = {2}
        /\ relay[w].body = "relaying"

\* the URL is built from the account's credentials and the slot's provider
\* stream id, local timestamp and duration
BuiltFrom(url, slot) ==
    LET m3u_account == AccountTable[slot.frame.m3u_account_id]
    IN  /\ url.username = m3u_account.username
        /\ url.password = m3u_account.password
        /\ url.stream = slot.request.duration
        /\ url.start = slot.frame.local_timestamp
        /\ url.duration = slot.frame.duration_minutes

\* C30: for every request that reaches URL building, the primary and the
\* fallback URL are built from the same account credentials, the same stream
\* id, the same local timestamp and the same duration, and the stream id in
\* the URL is, as a string, the provider stream id of the fifth path field.
C30_SameComponents ==
    \A w \in Busy :
        LET slot == req[w] IN
        Planned(slot) =>
            /\ BuiltFrom(slot.frame.timeshift_url, slot)
            /\ slot.frame.fallback_url # None =>
                  /\ BuiltFrom(slot.frame.fallback_url, slot)
                  /\ slot.frame.fallback_url.base = slot.frame.timeshift_url.base
                  /\ slot.frame.fallback_url.format # slot.frame.timeshift_url.format
            /\ \A n \in 1..Len(slot.gets) : BuiltFrom(slot.gets[n].url, slot)

\* both dialects went out for stream 22371 of account 1 with the 95 minutes
\* of the programme that covers 15:30
C30_Witness ==
    \E w \in Busy :
        /\ Planned(req[w])
        /\ req[w].request.duration = S22371
        /\ req[w].frame.duration_minutes = 95
        /\ Len(req[w].gets) = 2
        /\ req[w].gets[1].url.format = "A"
        /\ req[w].gets[2].url.format = "B"
        /\ req[w].gets[2].url.stream = S22371
        /\ req[w].gets[2].url.duration = 95

\* C31: a request for account X changes the preference of no other account,
\* and leaves the preference of X as it was when the request is received,
\* when its primary attempt succeeds or fails with a status other than 400,
\* when its fallback attempt returns a status other than 200 or 206, and
\* when either attempt raises a timeout or a connection error.
C31_FrameOfTheCache ==
    [][\A w \in Workers :
          /\ (req[w].pc = "idle" /\ req'[w].pc # "idle") =>
                url_format_cache' = url_format_cache
          /\ (req[w].pc \in {"primary", "fallback"}
                /\ req'[w].pc \in {"fallback", "done"}
                /\ req'[w] # req[w]) =>
                LET X == req[w].frame.m3u_account_id
                IN  /\ \A Y \in AccountIds \ {X} :
                          url_format_cache'[Y] = url_format_cache[Y]
                    /\ ~(req[w].pc = "fallback" /\ Answered(req'[w], 2, {200, 206}))
                          => url_format_cache'[X] = url_format_cache[X]]_vars

\* while account 1 has its preference stored, a request for account 0 ended
\* in a connection error of its fallback attempt: both entries as before
C31_Witness ==
    \E w \in Busy :
        /\ req[w].pc = "done"
        /\ Planned(req[w])
        /\ req[w].frame.m3u_account_id = 0
        /\ Len(req[w].answers) = 2
        /\ req[w].answers[2].kind = "ConnectionError"
        /\ url_format_cache[0] = Absent
        /\ url_format_cache[1] = "B"

C33_DurationInRange ==
    call.state = "returned" => call.result \in 5..480

\* a programme of twenty seconds covers the timestamp: 5 minutes; and in
\* another call one of ten hours: 480
C33_Witness ==
    /\ call.state = "returned"
    /\ call.channel.epg_data # None
    /\ Len(call.channel.epg_data.programs) >= 1
    /\ call.channel.epg_data.programs[1].title = "blip"
    /\ call.timestamp_str = <<2025, 1, 15, 15, 30>>
    /\ call.result = 5

\* C34: while the plugin is disabled, each of the five patched entry points
\* is observationally equal to the host's original: the call ends in the
\* host's function, with the caller's arguments, and what it gives is
\* returned as it is, for catch-up paths too.
C34_DisabledIsTheHost ==
    [][~IsPluginEnabled(plugin_config, enabled) =>
          /\ \A path \in HookPaths :
                Resolve(path) => hook_out' = OriginalResolve(path)
          /\ \A rq \in HookLiveRequests :
                StreamXc(rq) => hook_out' = OriginalStreamXc(rq, "host")
          /\ \A streams \in HostListings :
                XcGetLiveStreams(streams) =>
                    hook_out' = OriginalXcGetLiveStreams(streams, "host")
          /\ \A rq \in EpgRequests, host \in {"returns", "raises"},
                has_config \in BOOLEAN :
                XcGetEpg(rq, host, has_config) =>
                    hook_out' = OriginalXcGetEpg(rq, "host", host, "",
                                                 Query("caller", rq.stream_id),
                                                 Query("caller", rq.stream_id))
          /\ \A has_config \in BOOLEAN :
                GenerateEpg(has_config) => hook_out' = OriginalGenerateEpg("host")]_vars

\* C35: when patched_xc_get_epg hands the request on (a short request, or a
\* channel without archive), the call carries as stream_id the internal id
\* of the channel that was resolved, and once the call has returned or
\* raised, request.GET is the caller's own query object again.
C35_DelegationRestoresGet ==
    (hook_out.hook = "xc_get_epg" /\ hook_out.found # ""
        /\ hook_out.called_with # None) =>
        /\ hook_out.called_with.stream_id = Str(ChannelIds[hook_out.found])
        /\ hook_out.get_after = [owner |-> "caller",
                                 stream_id |-> hook_out.request.stream_id]

\* the host's function raised on a short request for provider id 22371, and
\* in another call it returned for a channel without archive
C35_Witness ==
    /\ hook_out.hook = "xc_get_epg"
    /\ hook_out.via = "host"
    /\ hook_out.status = 404
    /\ hook_out.request.short
    /\ hook_out.request.stream_id = S22371
    /\ hook_out.found = "c1"
    /\ hook_out.called_with = [owner |-> "copy", stream_id |-> S404]
    /\ hook_out.get_after.owner = "caller"

\* the level that a channel requires, from the table of channels
RequiredLevel(c) == CASE c = "c1" -> 1 [] c = "c2" -> 10 [] c = "c3" -> 0

\* the level and the live password of the users who have one
Credentials(u) ==
    CASE u = "alice" -> [user_level |-> 10, xc_password |-> PwAlice]
      [] u = "dave"  -> [user_level |-> 1, xc_password |-> PwDave]
      [] u = "bob"   -> [user_level |-> 10, xc_password |-> <<>>]

\* C36: with the plugin enabled, patched stream_xc hands a channel to
\* stream_ts only if the user exists, the password supplied equals the
\* user's xc_password and the user's level is at least the level the channel
\* requires, whether the channel was found by provider stream id or by
\* internal id.
C36_ServedOnlyWithAccess ==
    (hook_out.hook = "stream_xc" /\ hook_out.served # "") =>
        /\ hook_out.request.username \in {"alice", "dave", "bob"}
        /\ Credentials(hook_out.request.username).xc_password
              = hook_out.request.password
        /\ Credentials(hook_out.request.username).user_level
              >= RequiredLevel(hook_out.served)

\* dave, of level 1, is served channel c1 found by the provider's stream id
C36_Witness ==
    /\ hook_out.hook = "stream_xc"
    /\ hook_out.request.username = "dave"
    /\ hook_out.request.password = PwDave
    /\ hook_out.lookups = <<"provider">>
    /\ hook_out.served = "c1"

\* C37: listing and lookup round-trip: for every channel that the patched
\* xc_get_live_streams lists with tv_archive = 1 and a replaced stream_id, a
\* catch-up request with the listed stream_id resolves in
\* _find_channel_by_provider_stream_id to that same channel and to a stream
\* whose archive check passes.
C37_ListedIdResolvesBack ==
    (hook_out.hook = "xc_get_live_streams" /\ hook_out.via = "patched") =>
        \A i \in 1..Len(hook_out.result) :
            LET listed == hook_out.result[i]
                internal_id == hook_out.streams[i].stream_id
                hit == FindChannelByProviderStreamId(Str(listed.stream_id))
            IN  (listed.tv_archive = 1 /\ listed.stream_id # internal_id) =>
                    /\ hit.channel # None
                    /\ ChannelIds[hit.channel.name] = internal_id
                    /\ ArchiveEnabled(hit.stream.custom_properties)

\* C38: for every stored plugin configuration, the timezone that the
\* catch-up engine uses (_get_plugin_timezone) equals the timezone that the
\* EPG hooks use (_get_plugin_config); both fall back to Europe/Brussels
\* only when no timezone is configured or the configuration cannot be read.
C38_SameTimezone ==
    [][/\ \A has_config \in BOOLEAN :
            (GenerateEpg(has_config) /\ hook_out'.via = "patched") =>
                hook_out'.converted = GetPluginTimezone(plugin_config)
       /\ \A rq \in EpgRequests, host \in {"returns", "raises"},
             has_config \in BOOLEAN :
            (XcGetEpg(rq, host, has_config) /\ hook_out'.via = "patched"
                /\ hook_out'.status = 200) =>
                hook_out'.timezone = GetPluginTimezone(plugin_config)]_vars

\* C39: install_hooks is all-or-nothing: when it returns True (no patch step
\* raised) all five host entry points are patched, and when it returns False
\* (some patch step raised) none of the host entry points is left patched by
\* it; plugin._hooks_installed is True only in the first case.
C39_AllOrNothing ==
    [][\A raises_at \in RaisesAt :
          ((~hooks.installed /\ AutoInstall(raises_at))
              \/ PluginRun("enable", raises_at)) =>
              /\ raises_at = 0 => \A f \in HostFunctions : hooks'.wrappers[f] >= 1
              /\ raises_at # 0 => hooks'.wrappers = hooks.wrappers
              /\ (hooks'.installed /\ ~hooks.installed) => raises_at = 0]_vars

====
